---- MODULE Spec2Model ----
(***************************************************************************)
(* Model of the query-serving engine of the NITK virtual assistant:        *)
(* rag-service/core/rag.py (RAGAssistant), core/cache.py (CacheManager),   *)
(* core/temporal_detector.py (TemporalDetector) and the POST /query        *)
(* handler of api/routes.py.                                               *)
(*                                                                         *)
(* Texts are sequences of atoms.  An atom is either a whitespace character *)
(* (" " or "\n") or an indivisible piece of a word.  Keyword search        *)
(* (Python's `kw in text`) is contiguous-subsequence search on the         *)
(* lowercased atoms; str.strip, str.split, str.split('\n') and the two     *)
(* regular expressions are computed on atoms as Python computes them on    *)
(* characters.                                                             *)
(***************************************************************************)
EXTENDS Integers, Sequences, FiniteSets, TLC

\* Python's None, per type of the value it stands in for.
None == "None"            \* a label
NoKey == <<>>             \* a cache key or a query string
NoReq == 0                \* a reference to a query_data dict
NoEntry == [absent |-> TRUE]   \* a missing cache file

\* ------------------------------------------------------------------------
\* Text primitives
\* ------------------------------------------------------------------------
\* An operator that reads its argument many times binds it once: Once is
\* the body of the operator, applied to the value v of the argument.

WS == {" ", "\n"}

\* Atoms that consist of ASCII letters only (the class [a-zA-Z]+).
AlphaAtoms ==
    {"NITK", "is", "sorry", "happy", "Error", "generating", "response",
     "An", "error", "occurred", "Based", "today", "I", "access", "current",
     "information", "right", "unable", "to", "at", "the", "Please", "try",
     "again", "director", "hello", "latest", "news", "m"}

\* str.lower() on one atom.
Lower(a) ==
    CASE a = "NITK"     -> "nitk"
      [] a = "Error"    -> "error"
      [] a = "An"       -> "an"
      [] a = "Based"    -> "based"
      [] a = "I"        -> "i"
      [] a = "Please"   -> "please"
      [] a = "EMOTION:" -> "emotion:"
      [] a = "Ravi"     -> "ravi"
      [] a = "Raviraj"  -> "raviraj"
      [] a = "#NITKSurathkal" -> "#nitksurathkal"
      [] a = "Kumar"    -> "kumar"
      [] a = "Central"  -> "central"
      [] a = "Library"  -> "library"
      [] a = "Hello"    -> "hello"
      [] OTHER          -> a

LowerText(t_arg) ==
    LET Once(t) ==
        [i \in 1..Len(t) |-> Lower(t[i])]
    IN  CHOOSE res \in {Once(v) : v \in {t_arg}} : TRUE

RECURSIVE Flatten(_)
\* "".join(chunks)
Flatten(chunks_arg) ==
    LET Once(chunks) ==
        IF chunks = <<>> THEN <<>> ELSE Head(chunks) \o Flatten(Tail(chunks))
    IN  CHOOSE res \in {Once(v) : v \in {chunks_arg}} : TRUE

\* `kw in text`
Contains(t_arg, kw) ==
    LET Once(t) ==
        \E i \in 1..(Len(t) - Len(kw) + 1) : SubSeq(t, i, i + Len(kw) - 1) = kw
    IN  CHOOSE res \in {Once(v) : v \in {t_arg}} : TRUE

ContainsAny(t_arg, kws) ==
    LET Once(t) ==
        \E kw \in kws : Contains(t, kw)
    IN  CHOOSE res \in {Once(v) : v \in {t_arg}} : TRUE

\* str.strip()
Strip(t_arg) ==
    LET Once(t) ==
        LET idx == {i \in 1..Len(t) : t[i] \notin WS}
        IN  IF idx = {} THEN <<>>
            ELSE LET lo == CHOOSE i \in idx : \A j \in idx : i <= j
                     hi == CHOOSE i \in idx : \A j \in idx : j <= i
                 IN  SubSeq(t, lo, hi)
    IN  CHOOSE res \in {Once(v) : v \in {t_arg}} : TRUE

RECURSIVE SplitOn(_, _, _)
\* Pieces of t between atoms of the set seps; cur is the piece being built.
\* With seps = {"\n"} this is str.split('\n') (empty pieces kept).
SplitOn(t_arg, seps, cur_arg) ==
    LET Once(t, cur) ==
        IF t = <<>> THEN <<cur>>
        ELSE IF Head(t) \in seps THEN <<cur>> \o SplitOn(Tail(t), seps, <<>>)
        ELSE SplitOn(Tail(t), seps, Append(cur, Head(t)))
    IN  CHOOSE res \in {Once(v[1], v[2]) : v \in {<<t_arg, cur_arg>>}} : TRUE

SplitLines(t_arg) ==
    LET Once(t) ==
        SplitOn(t, {"\n"}, <<>>)
    IN  CHOOSE res \in {Once(v) : v \in {t_arg}} : TRUE

\* str.split(): maximal runs of non-whitespace atoms (empty pieces dropped).
Words(t_arg) ==
    LET Once(t) ==
        SelectSeq(SplitOn(t, WS, <<>>), LAMBDA w : w # <<>>)
    IN  CHOOSE res \in {Once(v) : v \in {t_arg}} : TRUE

\* re.sub(r'[^\w\s]', '', term) on one word.
RemovePunctuation(a) ==
    CASE a = "director?" -> "director"
      [] a = "#nitk"     -> "nitk"
      [] a = "?"         -> ""
      [] OTHER           -> a

\* The words of text.split(), each a single atom.
WordAtoms(text_arg) ==
    LET Once(text) ==
        LET ws == Words(text) IN [i \in 1..Len(ws) |-> ws[i][1]]
    IN  CHOOSE res \in {Once(v) : v \in {text_arg}} : TRUE

\* " ".join(words)
JoinWords(words_arg) ==
    LET Once(words) ==
        [i \in 1..(2 * Len(words) - 1) |->
            IF i % 2 = 1 THEN words[(i + 1) \div 2] ELSE " "]
    IN  CHOOSE res \in {Once(v) : v \in {words_arg}} : TRUE


\* ------------------------------------------------------------------------
\* Emotion labelling (rag.py)
\* ------------------------------------------------------------------------

Emotions ==
    {"happy", "excited", "thinking", "confused", "greeting", "goodbye",
     "neutral", "sad", "surprised"}

HappyWords == {<<"congratulations">>, <<"excellent">>, <<"wonderful">>,
               <<"amazing">>, <<"fantastic">>}
ExcitedWords == {<<"exciting">>, <<"thrilled">>, <<"incredible">>}
SadWords == {<<"sorry">>, <<"unfortunately">>, <<"problem">>, <<"issue">>,
             <<"error">>}
SurprisedWords == {<<"interesting">>, <<"surprising">>, <<"remarkable">>,
                   <<"wow">>}
ConfusedWords == {<<"unclear">>, <<"confusing">>, <<"not", " ", "sure">>,
                  <<"difficult", " ", "to">>}
ThinkingWords == {<<"think">>, <<"consider">>, <<"analyze">>, <<"complex">>,
                  <<"depends">>}
GreetingWords == {<<"hello">>, <<"hi">>, <<"hey">>, <<"good", " ", "morning">>,
                  <<"good", " ", "afternoon">>}
GoodbyeWords == {<<"bye">>, <<"goodbye">>, <<"see", " ", "you">>,
                 <<"farewell">>}

\* Mutation of DetectEmotionFromContent: a branch returns a label outside
\* the enumeration.
DetectEmotionFromContent_BadLabel(text_arg, question_arg) ==
    LET Once(text, question) ==
        IF text = <<>> THEN "neutral"
        ELSE LET tl == LowerText(text)
                 ql == LowerText(question)
             IN  IF      ContainsAny(tl, HappyWords)     THEN "happy"
                 ELSE IF ContainsAny(tl, ExcitedWords)   THEN "excited"
                 ELSE IF ContainsAny(tl, SadWords)       THEN "apologetic"
                 ELSE IF ContainsAny(tl, SurprisedWords) THEN "surprised"
                 ELSE IF ContainsAny(tl, ConfusedWords)  THEN "confused"
                 ELSE IF ContainsAny(tl, ThinkingWords)  THEN "thinking"
                 ELSE IF ContainsAny(ql, GreetingWords)  THEN "greeting"
                 ELSE IF ContainsAny(ql, GoodbyeWords)   THEN "goodbye"
                 ELSE "neutral"
    IN  CHOOSE res \in {Once(v[1], v[2]) : v \in {<<text_arg, question_arg>>}} : TRUE

\* RAGAssistant._detect_emotion_from_content(text, question)
DetectEmotionFromContent(text_arg, question_arg) ==
    LET Once(text, question) ==
        IF text = <<>> THEN "neutral"
        ELSE LET tl == LowerText(text)
                 ql == LowerText(question)
             IN  IF      ContainsAny(tl, HappyWords)     THEN "happy"
                 ELSE IF ContainsAny(tl, ExcitedWords)   THEN "excited"
                 ELSE IF ContainsAny(tl, SadWords)       THEN "sad"
                 ELSE IF ContainsAny(tl, SurprisedWords) THEN "surprised"
                 ELSE IF ContainsAny(tl, ConfusedWords)  THEN "confused"
                 ELSE IF ContainsAny(tl, ThinkingWords)  THEN "thinking"
                 ELSE IF ContainsAny(ql, GreetingWords)  THEN "greeting"
                 ELSE IF ContainsAny(ql, GoodbyeWords)   THEN "goodbye"
                 ELSE "neutral"
    IN  CHOOSE res \in {Once(v[1], v[2]) : v \in {<<text_arg, question_arg>>}} : TRUE

\* RAGAssistant._parse_llm_response(full_response, question):
\* <<cleaned_text, emotion>>
ParseLLMResponse(full_response_arg, question_arg) ==
    LET Once(full_response, question) ==
        LET cleaned_text == Strip(full_response)
        IN  <<cleaned_text, DetectEmotionFromContent(cleaned_text, question)>>
    IN  CHOOSE res \in {Once(v[1], v[2]) : v \in {<<full_response_arg, question_arg>>}} : TRUE

\* ------------------------------------------------------------------------
\* Chunking of a complete text (rag.py)
\* ------------------------------------------------------------------------

RECURSIVE LineChunks(_, _)
\* The yields of the loop of _handle_cached_response over lines[i..]:
\* every word followed by a space, and "\n" after every line but the last.
LineChunks(lines_arg, i) ==
    LET Once(lines) ==
        IF i > Len(lines) THEN <<>>
        ELSE LET ws == Words(lines[i])
                 wchunks == [j \in 1..Len(ws) |-> ws[j] \o <<" ">>]
             IN  wchunks
                 \o (IF i < Len(lines) THEN << <<"\n">> >> ELSE <<>>)
                 \o LineChunks(lines, i + 1)
    IN  CHOOSE res \in {Once(v) : v \in {lines_arg}} : TRUE

\* Chunks yielded by _handle_cached_response for the stripped cached text.
CachedChunks(cached_text_arg) ==
    LET Once(cached_text) ==
        LineChunks(SplitLines(cached_text), 1)
    IN  CHOOSE res \in {Once(v) : v \in {cached_text_arg}} : TRUE

\* RAGAssistant._stream_text(text)
StreamText(text_arg) ==
    LET Once(text) ==
        LET ws == Words(text)
        IN  [i \in 1..Len(ws) |-> IF i < Len(ws) THEN ws[i] \o <<" ">> ELSE ws[i]]
    IN  CHOOSE res \in {Once(v) : v \in {text_arg}} : TRUE

\* Atoms matched by the citation pattern \[\d+(?:[-,]\d+)*\]
CitationAtoms == {"[1]", "[2-3]"}

\* re.sub(citation pattern, '', chunk) of _query_perplexity
RemoveCitations(chunk_arg) ==
    LET Once(chunk) ==
        SelectSeq(chunk, LAMBDA a : a \notin CitationAtoms)
    IN  CHOOSE res \in {Once(v) : v \in {chunk_arg}} : TRUE

\* Fixed fallback strings.
ErrorGeneratingResponse == <<"Error", " ", "generating", " ", "response">>
AnErrorOccurred == <<"An", " ", "error", " ", "occurred">>
PerplexityErrorVoice ==
    <<"I", " ", "can't", " ", "access", " ", "current", " ", "information",
      " ", "right", " ", "now.">>
PerplexityErrorWeb ==
    <<"I'm", " ", "unable", " ", "to", " ", "access", " ", "current", " ",
      "information", " ", "at", " ", "the", " ", "moment.", " ", "Please",
      " ", "try", " ", "again", " ", "later.">>

PerplexityErrorResponse(response_format) ==
    IF response_format = "voice" THEN PerplexityErrorVoice
    ELSE PerplexityErrorWeb

\* ------------------------------------------------------------------------
\* POST /query response cleaning (routes.py)
\* ------------------------------------------------------------------------

\* Does t[i..] match EMOTION:\s*[a-zA-Z]+\s*$ ?
EmotionTagAt(t_arg, i) ==
    LET Once(t) ==
        /\ t[i] = "EMOTION:"
        /\ \E a \in (i + 1)..Len(t) : \E b \in a..Len(t) :
              /\ \A j \in (i + 1)..(a - 1) : t[j] \in WS
              /\ \A j \in a..b : t[j] \in AlphaAtoms
              /\ \A j \in (b + 1)..Len(t) : t[j] \in WS
    IN  CHOOSE res \in {Once(v) : v \in {t_arg}} : TRUE

\* re.sub(r'EMOTION:\s*[a-zA-Z]+\s*$', '', response_text.strip()).strip()
RouteClean(response_text_arg) ==
    LET Once(response_text) ==
        LET t == Strip(response_text)
            hits == {i \in 1..Len(t) : EmotionTagAt(t, i)}
        IN  IF hits = {} THEN t
            ELSE LET i == CHOOSE h \in hits : \A g \in hits : h <= g
                 IN  Strip(SubSeq(t, 1, i - 1))
    IN  CHOOSE res \in {Once(v) : v \in {response_text_arg}} : TRUE


\* ------------------------------------------------------------------------
\* Temporal classifier (temporal_detector.py, config.py)
\* ------------------------------------------------------------------------

temporal_keywords ==
    {<<"latest">>, <<"recent">>, <<"current">>, <<"new">>, <<"now">>,
     <<"today">>, <<"this", " ", "year">>}
status_keywords ==
    {<<"updates">>, <<"announcements">>, <<"changes">>, <<"progress">>,
     <<"news">>}
relative_time_keywords ==
    {<<"last", " ", "month">>, <<"past", " ", "year">>,
     <<"recently", " ", "announced">>}
current_year_range == 1

\* datetime.now().year at construction of the detector.
current_year == 2026

\* Atoms matched by \b(20\d{2})\b, with their value.
YearAtoms == {"2019", "2026"}
YearOf(a) == IF a = "2019" THEN 2019 ELSE 2026

\* A keyword occurrence delimited by word boundaries: the atoms around it
\* are whitespace or the ends of the text.
ContainsWord(t_arg, kw) ==
    LET Once(t) ==
        \E i \in 1..(Len(t) - Len(kw) + 1) :
            /\ SubSeq(t, i, i + Len(kw) - 1) = kw
            /\ (IF i = 1 THEN TRUE ELSE t[i - 1] \in WS)
            /\ (IF i + Len(kw) - 1 = Len(t) THEN TRUE
                ELSE t[i + Len(kw)] \in WS)
    IN  CHOOSE res \in {Once(v) : v \in {t_arg}} : TRUE

\* TemporalDetector._has_temporal_keywords
HasTemporalKeywords(query_arg) ==
    LET Once(query) ==
        \E kw \in temporal_keywords \cup status_keywords
                    \cup relative_time_keywords : ContainsWord(query, kw)
    IN  CHOOSE res \in {Once(v) : v \in {query_arg}} : TRUE

\* TemporalDetector._has_recent_years
HasRecentYears(query_arg) ==
    LET Once(query) ==
        \E i \in 1..Len(query) :
            /\ query[i] \in YearAtoms
            /\ current_year - current_year_range <= YearOf(query[i])
            /\ YearOf(query[i]) <= current_year + current_year_range
    IN  CHOOSE res \in {Once(v) : v \in {query_arg}} : TRUE

\* TemporalDetector.needs_current_info
NeedsCurrentInfo(query_arg) ==
    LET Once(query) ==
        \/ HasTemporalKeywords(Strip(LowerText(query)))
        \/ HasRecentYears(query)
    IN  CHOOSE res \in {Once(v) : v \in {query_arg}} : TRUE

\* ------------------------------------------------------------------------
\* Entity dictionary and name matcher (entities.py).  Names, catalogue
\* entries and the texts handed to the extractor are texts whose words are
\* single atoms.  Similarities are percentages (rounded down), weights are
\* thousandths.
\* ------------------------------------------------------------------------

INITIAL_WEIGHT == 400
EXACT_WEIGHT == 600

\* The entity types in the order of entity_files.
EntityTypes == <<"PERSON", "ORGANIZATION", "LOCATION", "EVENT">>

\* EntityExtractor.entities after _load_entities.  The catalogue files are
\* data of the deployment: one person, one organization, one location, no
\* event; no transliteration and no name format is configured.
entities ==
    [PERSON |-> {<<"Ravi", " ", "Kumar">>},
     ORGANIZATION |-> {<<"NITK">>},
     LOCATION |-> {<<"Central", " ", "Library">>},
     EVENT |-> {}]

\* EntityExtractor.entities_lower
entities_lower ==
    [ty \in DOMAIN entities |-> {LowerText(e) : e \in entities[ty]}]

\* thefuzz.fuzz.ratio on two words, 2 * matches / total length in percent.
FuzzRatio(a, b) ==
    IF a = b THEN 100
    ELSE IF {a, b} = {"ravi", "raviraj"} THEN 73
    ELSE IF {a, b} \subseteq {"ravi", "kumar", "central", "library", "nitk"}
    THEN 25
    ELSE 20

\* thefuzz.fuzz.ratio on two texts.
FuzzRatioText(t1_arg, t2_arg) ==
    LET Once(t1, t2) ==
        IF t1 = t2 THEN 100
        ELSE IF Len(t1) = 1 /\ Len(t2) = 1 THEN FuzzRatio(t1[1], t2[1])
        ELSE 20
    IN  CHOOSE res \in {Once(v[1], v[2]) : v \in {<<t1_arg, t2_arg>>}} : TRUE

\* thefuzz.fuzz.token_sort_ratio: the ratio of the two texts with their
\* words sorted.
TokenSortRatio(t1, t2) ==
    LET count(ws, w) == Cardinality({i \in 1..Len(ws) : ws[i] = w})
        range(ws) == {ws[i] : i \in 1..Len(ws)}
        ratio(w1, w2) ==
            IF \A w \in range(w1) \cup range(w2) : count(w1, w) = count(w2, w)
            THEN 100
            ELSE IF range(w1) \cap range(w2) # {} THEN 60
            ELSE 20
    IN  CHOOSE res \in {ratio(v[1], v[2]) :
                          v \in {<<WordAtoms(t1), WordAtoms(t2)>>}} : TRUE

\* PersonsData.standardize_name: whitespace is collapsed and stripped (no
\* word of the vocabulary holds an initial followed by a dot).
StandardizeName(name_arg) ==
    LET Once(name) ==
        JoinWords(WordAtoms(name))
    IN  CHOOSE res \in {Once(v) : v \in {name_arg}} : TRUE

\* NameMatcher.normalize_name: standardize, lowercase, remove punctuation.
NormalizeName(name) ==
    LET cleaned(std) ==
            SelectSeq([i \in 1..Len(std) |-> RemovePunctuation(std[i])],
                      LAMBDA a : a # "")
    IN  CHOOSE res \in {cleaned(v) :
                          v \in {LowerText(StandardizeName(name))}} : TRUE

\* PersonsData.is_known_person
IsKnownPerson(name) ==
    LET known_name(std_name) ==
            \/ std_name \in entities_lower.PERSON
            \/ \E known \in entities_lower.PERSON :
                  FuzzRatioText(std_name, known) > 90
    IN  CHOOSE res \in {known_name(v) :
                          v \in {LowerText(StandardizeName(name))}} : TRUE

\* part[0] of a word and whether the word is one letter long.
FirstLetter(a) ==
    CASE a \in {"r", "ravi", "raviraj"} -> "r"
      [] a \in {"k", "kumar"}           -> "k"
      [] a \in {"c", "central"}         -> "c"
      [] a \in {"l", "library", "latest"} -> "l"
      [] a \in {"n", "nitk", "news"}    -> "n"
      [] a \in {"h", "hello"}           -> "h"
      [] a \in {"d", "director"}        -> "d"
      [] a \in {"i", "is"}              -> "i"
      [] a \in {"w", "where"}           -> "w"
      [] OTHER                          -> a
OneLetter(a) == a \in {"r", "k", "c", "l", "n", "h", "d", "i", "w", "m"}

\* NameMatcher._compute_part_similarity, in thousandths.
ComputePartSimilarity(part1, part2) ==
    IF part1 = part2 THEN 1000
    ELSE IF /\ FirstLetter(part1) = FirstLetter(part2)
            /\ (OneLetter(part1) \/ OneLetter(part2))
    THEN INITIAL_WEIGHT
    ELSE (FuzzRatio(part1, part2) * EXACT_WEIGHT) \div 100

RECURSIVE SumTo(_, _)
\* sum(f[i] for i in 1..n)
SumTo(f_arg, n) ==
    LET Once(f) ==
        IF n = 0 THEN 0 ELSE f[n] + SumTo(f, n - 1)
    IN  CHOOSE res \in {Once(v) : v \in {f_arg}} : TRUE

\* NameMatcher.name_similarity(name1, name2), 0..100
NameSimilarity(name1, name2) ==
    LET weight(i, max_parts) == IF i = 1 \/ i = max_parts THEN 12 ELSE 10
        similarity(parts1, parts2, i) ==
            IF i > Len(parts1) \/ i > Len(parts2) THEN 0
            ELSE ComputePartSimilarity(parts1[i], parts2[i])
        final_score(parts1, parts2, max_parts) ==
            (SumTo([i \in 1..max_parts |->
                      similarity(parts1, parts2, i) * weight(i, max_parts)],
                   max_parts) * 100)
              \div SumTo([i \in 1..max_parts |-> weight(i, max_parts)],
                         max_parts)
        boosted(score, known) == IF known THEN (score * 11) \div 10 ELSE score
        capped(score) == IF score >= 100000 THEN 100 ELSE score \div 1000
        of_parts(parts1, parts2, known) ==
            IF parts1 = <<>> \/ parts2 = <<>> THEN 0
            ELSE capped(boosted(final_score(parts1, parts2,
                                   IF Len(parts1) > Len(parts2)
                                   THEN Len(parts1) ELSE Len(parts2)), known))
        of_normalized(n1, n2, known) ==
            IF n1 = n2 THEN 100
            ELSE CHOOSE res \in
                   {of_parts(v[1], v[2], known) :
                      v \in {<<WordAtoms(n1), WordAtoms(n2)>>}} : TRUE
    IN  IF name1 = <<>> \/ name2 = <<>> THEN 0
        ELSE CHOOSE res \in
               {of_normalized(v[1], v[2], v[3]) :
                  v \in {<<NormalizeName(name1), NormalizeName(name2),
                           IsKnownPerson(name1) \/ IsKnownPerson(name2)>>}} :
               TRUE


\* A match of the extractor: the dict {"text": ..., "label": ...}.
NoEntity == [label |-> "", text |-> <<>>]
Entity(text, label) == [label |-> label, text |-> text]

\* next(e for e in self.entities[entity_type] if e.lower() == text_lower)
MatchingEntity(text_lower_arg, entity_type) ==
    LET Once(text_lower) ==
        CHOOSE e \in entities[entity_type] : LowerText(e) = text_lower
    IN  CHOOSE res \in {Once(v) : v \in {text_lower_arg}} : TRUE

\* EntityExtractor._get_best_match(text_lower, entity_type): the match, or
\* NoEntity for None.  Where several entries reach the same score the
\* iteration order of the set decides; the catalogue has no such entries.
GetBestMatch(text_lower, entity_type) ==
    LET score(e) ==
            IF entity_type = "PERSON" THEN NameSimilarity(text_lower, e)
            ELSE TokenSortRatio(text_lower, LowerText(e))
        best_match(scores) ==
            LET best == CHOOSE x \in DOMAIN scores :
                            \A y \in DOMAIN scores : scores[y] <= scores[x]
            IN  IF scores[best] >= 80 THEN Entity(best, entity_type)
                ELSE NoEntity
    IN  IF text_lower = <<>> \/ entities[entity_type] = {} THEN NoEntity
        ELSE IF entity_type # "PERSON"
                /\ text_lower \in entities_lower[entity_type]
        THEN Entity(MatchingEntity(text_lower, entity_type), entity_type)
        ELSE CHOOSE res \in
               {best_match(v) :
                  v \in {[e \in entities[entity_type] |-> score(e)]}} : TRUE


\* match.get('confidence', 0), in thousandths
Confidence(match) ==
    IF "confidence" \in DOMAIN match THEN match.confidence ELSE 0

\* The chunks of extract_entities: the words in groups of chunk_size,
\* each group joined by one space.
chunk_size == 5
Chunks(text) ==
    LET upto(a, b) == IF a < b THEN a ELSE b
        groups(text_parts) ==
            [c \in 1..((Len(text_parts) + chunk_size - 1) \div chunk_size) |->
                JoinWords(SubSeq(text_parts, (c - 1) * chunk_size + 1,
                                 upto(c * chunk_size, Len(text_parts))))]
    IN  CHOOSE res \in {groups(v) : v \in {WordAtoms(Strip(text))}} : TRUE

\* The index of the first TRUE of a sequence of booleans, or 0: the
\* iteration at which a loop returns.
FirstIndex(flags_arg) ==
    LET Once(flags) ==
        LET idx == {i \in 1..Len(flags) : flags[i]}
        IN  IF idx = {} THEN 0 ELSE CHOOSE i \in idx : \A j \in idx : i <= j
    IN  CHOOSE res \in {Once(v) : v \in {flags_arg}} : TRUE

\* EntityExtractor.extract_entities(text): the list it returns.
ExtractEntities(text) ==
    LET non_person == SelectSeq(EntityTypes, LAMBDA ty : ty # "PERSON")
        first(found) == IF FirstIndex([k \in 1..Len(found) |->
                                          found[k] # NoEntity]) = 0
                        THEN <<>>
                        ELSE <<found[FirstIndex([k \in 1..Len(found) |->
                                                   found[k] # NoEntity])]>>
        exact(text_lower, exact_types) ==
            <<Entity(MatchingEntity(text_lower, exact_types[1]),
                     exact_types[1])>>
        seen(chunks, c) == \E d \in 1..(c - 1) : chunks[d] = chunks[c]
        confident(match) ==
            IF match # NoEntity /\ Confidence(match) > 900 THEN match
            ELSE NoEntity
        from_matches(chunks, matches) ==
            IF first([k \in 1..(Len(chunks) * Len(non_person)) |->
                        IF seen(chunks, (k - 1) \div Len(non_person) + 1)
                        THEN NoEntity
                        ELSE confident(
                               matches[(k - 1) \div Len(non_person) + 1]
                                      [non_person[((k - 1) % Len(non_person)) + 1]])])
                 # <<>>
            THEN first([k \in 1..(Len(chunks) * Len(non_person)) |->
                        IF seen(chunks, (k - 1) \div Len(non_person) + 1)
                        THEN NoEntity
                        ELSE confident(
                               matches[(k - 1) \div Len(non_person) + 1]
                                      [non_person[((k - 1) % Len(non_person)) + 1]])])
            ELSE first([c \in 1..Len(chunks) |-> matches[c]["PERSON"]])
        from_chunks(chunks) ==
            CHOOSE res \in
              {from_matches(chunks, v) :
                 v \in {[c \in 1..Len(chunks) |->
                           [ty \in DOMAIN entities |->
                              GetBestMatch(LowerText(chunks[c]), ty)]]}} : TRUE
        from_text(text_lower, exact_types) ==
            IF exact_types # <<>> THEN exact(text_lower, exact_types)
            ELSE CHOOSE res \in {from_chunks(v) : v \in {Chunks(text)}} : TRUE
    IN  CHOOSE res \in
          {from_text(v, SelectSeq(EntityTypes,
                                  LAMBDA ty : v \in entities_lower[ty])) :
             v \in {LowerText(Strip(text))}} : TRUE


\* ------------------------------------------------------------------------
\* Query clean-up (vector_search_service.py) and the name the orchestrator
\* keeps for the cache key (rag.py)
\* ------------------------------------------------------------------------

\* Atoms matched whole by @\w+, #\w+ and http\S+|www.\S+
HandleAtoms ==
    {"@director", "@Ravi", "#nitk", "#NITKSurathkal", "#placements",
     "http://nitk.ac.in"}

\* re.sub(r'[^\w\s.,!?-]', '', text) on one atom.
RemoveSpecial(a) ==
    CASE a = "EMOTION:" -> "EMOTION"
      [] a = "[1]"      -> "1"
      [] a = "[2-3]"    -> "2-3"
      [] OTHER          -> a

\* re.sub(r'\s+', ' ', text).strip()
CollapseWhitespace(t) ==
    LET spaced(ws) ==
            Flatten([i \in 1..Len(ws) |->
                        IF i = 1 THEN ws[i] ELSE <<" ">> \o ws[i]])
    IN  CHOOSE res \in {spaced(v) : v \in {Words(t)}} : TRUE

\* VectorSearchService.preprocess_text(text)[0]
PreprocessText(text) ==
    LET cleaned(kept) == [i \in 1..Len(kept) |-> RemoveSpecial(kept[i])]
    IN  CollapseWhitespace(
            cleaned(SelectSeq(text, LAMBDA a : a \notin HandleAtoms)))

\* self.normalized_query after the entity extraction of
\* _process_rag_query: the normalized name of the question when the
\* entity found in the cleaned question is a PERSON, None otherwise (the
\* service is wired with an entity extractor and a name matcher).
NormalizedQuery(question) ==
    LET of_entities(query_entities) ==
            IF query_entities # <<>> /\ query_entities[1].label = "PERSON"
            THEN NormalizeName(question)
            ELSE <<>>
    IN  CHOOSE res \in
          {of_entities(v) :
             v \in {ExtractEntities(PreprocessText(question))}} : TRUE

\* ------------------------------------------------------------------------
\* Response cache (cache.py).  Time is counted in hours.
\* ------------------------------------------------------------------------

cache_max_age_days == 7
cache_max_size_gb == 1
cache_cleanup_interval_hours == 24

\* CacheManager.get_cache_key: the MD5 digest of f"{query}_{format}" is
\* represented by the digested string itself (no collisions).
GetCacheKey(query, response_format) == query \o <<"_", response_format>>

\* Mutation of IsExpired: an entry exactly as old as the TTL counts as
\* expired.
IsExpired_AtTTL(timestamp, t) ==
    IF timestamp = 0 THEN TRUE
    ELSE t - timestamp >= cache_max_age_days * 24

\* CacheManager._is_expired(timestamp) at time t
IsExpired(timestamp, t) ==
    IF timestamp = 0 THEN TRUE
    ELSE t - timestamp > cache_max_age_days * 24

\* Keys of the entries present in the cache directory.
Files(c_arg) ==
    LET Once(c) ==
        {k \in DOMAIN c : c[k] # NoEntry}
    IN  CHOOSE res \in {Once(v) : v \in {c_arg}} : TRUE

\* CacheManager.get_cached_response(key) at time t
GetCachedResponse(c_arg, key, t) ==
    LET Once(c) ==
        IF key \notin Files(c) THEN NoEntry
        ELSE IF IsExpired(c[key].timestamp, t) THEN NoEntry
        ELSE c[key]
    IN  CHOOSE res \in {Once(v) : v \in {c_arg}} : TRUE

\* st_size of one cache file: the text plus a fixed envelope.
FileSize(entry_arg) ==
    LET Once(entry) ==
        Len(entry.llm_response) + 64
    IN  CHOOSE res \in {Once(v) : v \in {entry_arg}} : TRUE

RECURSIVE TotalSize(_, _)
TotalSize(c_arg, ks_arg) ==
    LET Once(c, ks) ==
        IF ks = {} THEN 0
        ELSE LET k == CHOOSE x \in ks : TRUE
             IN  FileSize(c[k]) + TotalSize(c, ks \ {k})
    IN  CHOOSE res \in {Once(v[1], v[2]) : v \in {<<c_arg, ks_arg>>}} : TRUE

\* CacheManager._remove_old_entries at time t
RemoveOldEntries(c_arg, t) ==
    LET Once(c) ==
        [k \in DOMAIN c |->
            IF c[k] # NoEntry /\ IsExpired(c[k].timestamp, t) THEN NoEntry
            ELSE c[k]]
    IN  CHOOSE res \in {Once(v) : v \in {c_arg}} : TRUE

RECURSIVE EvictOldest(_, _, _)
\* The while-loop of _check_size_limits: unlink the oldest file by
\* modification time until the total is within max_size.
EvictOldest(c_arg, total_arg, max_size) ==
    LET Once(c, total) ==
        IF total <= max_size \/ Files(c) = {} THEN c
        ELSE LET oldest == CHOOSE k \in Files(c) :
                     \A j \in Files(c) : c[k].timestamp <= c[j].timestamp
             IN  EvictOldest([c EXCEPT ![oldest] = NoEntry],
                             total - FileSize(c[oldest]), max_size)
    IN  CHOOSE res \in {Once(v[1], v[2]) : v \in {<<c_arg, total_arg>>}} : TRUE

\* CacheManager._check_size_limits with a ceiling of max_size bytes:
\* total_size is summed over every file under cache_dir, the entries of
\* llm/ and other_size bytes of files elsewhere under cache_dir, and only
\* the entries of llm/ are unlinked.
CheckSizeLimitsOf(c_arg, other_size, max_size) ==
    LET Once(c) ==
        EvictOldest(c, TotalSize(c, Files(c)) + other_size, max_size)
    IN  CHOOSE res \in {Once(v) : v \in {c_arg}} : TRUE

\* CacheManager._check_size_limits under the default ceiling, in a cache
\* directory that holds nothing but llm/
CheckSizeLimits(c_arg) ==
    CheckSizeLimitsOf(c_arg, 0, cache_max_size_gb * 1024 * 1024 * 1024)

\* CacheManager.cleanup_cache at time t: <<cache, last_cleanup>>
CleanupCache(c_arg, last, t) ==
    LET Once(c) ==
        IF t - last > cache_cleanup_interval_hours
        THEN <<CheckSizeLimits(RemoveOldEntries(c, t)), t>>
        ELSE <<c, last>>
    IN  CHOOSE res \in {Once(v) : v \in {c_arg}} : TRUE

\* CacheManager.cache_response(key, response_obj) at time t:
\* <<cache, last_cleanup>>
CacheResponse(c_arg, last, key, response_obj_arg, t) ==
    LET Once(c, response_obj) ==
        IF key = NoKey THEN <<c, last>>
        ELSE CleanupCache(
                [c EXCEPT ![key] = [response_obj EXCEPT !.timestamp = t]],
                last, t)
    IN  CHOOSE res \in {Once(v[1], v[2]) : v \in {<<c_arg, response_obj_arg>>}} : TRUE


\* ------------------------------------------------------------------------
\* Bounds and inputs
\* ------------------------------------------------------------------------

MaxRequests == 2      \* requests served in one behaviour
MaxNow == 200         \* last hour of the clock

Reqs == {1, 2}
Formats == {"web", "voice"}
Questions == {<<"hello">>, <<"latest", " ", "news">>}

\* NormalizedQuery of each question a request carries, computed once.
NormalizedQueries == [question \in Questions |-> NormalizedQuery(question)]

\* Delta sequences the LLM may stream; a delta with empty content is the
\* empty sequence.
LLMStreams ==
    {<<>>,
     << <<>>, <<"NITK">> >>,
     << <<"NITK">>, <<"\n", "sorry">> >>}

\* Chunk sequences the external provider may deliver.
ProviderStreams ==
    {<<>>,
     << <<"Based", " ">>, <<"today", "[1]">> >>,
     << <<"sorry", "[2-3]", "\n">>, <<"NITK", " ", "EMOTION:", "happy">> >>}

\* Clock advances: exactly the TTL, and just past it (both are past the
\* cleanup interval).
TickSizes == {cache_max_age_days * 24, cache_max_age_days * 24 + 1}

Keys == {GetCacheKey(q, f) : q \in Questions, f \in Formats}

\* Bodies of POST /query that pass the validation of query_rag.
RequestBodies ==
    {[question |-> <<"hello">>, format |-> "voice"],
     [question |-> <<"latest", " ", "news">>, format |-> "web"]}

\* Bodies the validation refuses: an empty question, a whitespace-only
\* one, one word of max_query_length + 1 characters, and a format that is
\* neither web nor voice.
LongWord == "w1001"
RejectedBodies ==
    {[question |-> <<>>, format |-> "web"],
     [question |-> <<" ", "\n">>, format |-> "web"],
     [question |-> <<LongWord>>, format |-> "voice"],
     [question |-> <<"hello">>, format |-> "pdf"]}

Bodies == RequestBodies \cup RejectedBodies

\* ------------------------------------------------------------------------
\* State
\* ------------------------------------------------------------------------

VARIABLES
    config,                 \* Config flags and service wiring (fixed)
    now,                    \* wall clock, hours
    cache,                  \* cache_dir/llm: key -> entry or NoEntry
    last_cleanup,           \* CacheManager.last_cleanup
    last_detected_emotion,  \* RAGAssistant._last_detected_emotion
    current_cache_key,      \* RAGAssistant._current_cache_key
    current_query_data,     \* RAGAssistant._current_query_data: the request
                            \* whose query_data dict it references, or NoReq
    normalized_query,       \* RAGAssistant.normalized_query
    req,                    \* per request: handler locals, generator
                            \* position and query_data, history flags
    last_response,          \* the HTTP response just sent, until the next
                            \* request arrives
    written_by,             \* history: per key, the HTTP response of the
                            \* request that wrote the entry now stored, if
                            \* that request succeeded
    started,                \* number of requests accepted so far
    rerank,                 \* one call of ScoringService.rerank_results:
                            \* its arguments and, once it returned, its
                            \* result
    invoked                 \* one call of another operation followed from
                            \* its call to its return: its arguments and
                            \* its result

vars == <<config, now, cache, last_cleanup, last_detected_emotion,
          current_cache_key, current_query_data, normalized_query, req,
          last_response, written_by, started, rerank, invoked>>

\* The variables of the orchestrator and of the response cache.
service_vars == <<config, now, cache, last_cleanup, last_detected_emotion,
                  current_cache_key, current_query_data, normalized_query,
                  req, last_response, written_by, started>>

\* Positions of a request.
\*   idle      no request in the slot
\*   created   handler validated the request and created the generator
\*   llm       generator suspended at the yield of an LLM delta
\*   llm_err   suspended at the yield of "Error generating response"
\*   cached    suspended at a yield of _handle_cached_response
\*   pplx      suspended at a yield of _stream_text in _query_perplexity
\*   pplx_err  suspended at the yield of the provider fallback
\*   fallback  suspended at the yield of "An error occurred"
\*   done      generator exhausted
\*   raised    generator terminated by an exception
\*   closed    generator closed by its consumer before it was exhausted
Blank ==
    [pc |-> "idle", question |-> <<>>, response_format |-> "web",
     is_temporal |-> FALSE,
     emitted |-> <<>>,          \* chunks the handler has taken
     pending |-> <<>>,          \* chunks left to yield (cached / provider)
     qd_cache_safe |-> TRUE,    \* query_data["cache_safe"]
     received |-> <<>>,         \* history: deltas sent by the LLM
     failed |-> FALSE,          \* history: some step raised
     emotion_set |-> FALSE,     \* history: _last_detected_emotion assigned
     cache_read |-> FALSE,      \* history: get_cached_response called
     cache_written |-> FALSE,   \* history: cache_response called
     written_key |-> NoKey,     \* history: key passed to cache_response
     searched |-> FALSE,        \* history: vector search and re-ranker
                                \* were called
     path |-> "none"]           \* history: "llm", "cache", "pplx"

NoResponse == [status |-> 0]
NoRerank == [pc |-> "none"]
NoCall == [pc |-> "none"]

Init ==
    /\ config \in [perplexity_enabled : BOOLEAN, api_key : BOOLEAN,
                   cache_manager : {TRUE}]
    /\ now = 1
    /\ cache = [k \in Keys |-> NoEntry]
    /\ last_cleanup = 1
    /\ last_detected_emotion = "neutral"
    /\ current_cache_key = NoKey
    /\ current_query_data = NoReq
    /\ normalized_query = NoKey
    /\ req = [r \in Reqs |-> Blank]
    /\ last_response = NoResponse
    /\ written_by = [k \in Keys |-> NoResponse]
    /\ started = 0
    /\ rerank = NoRerank
    /\ invoked = NoCall

\* The service at rest with a fixed configuration: the state in which the
\* operations followed in isolation are called.
AtRest ==
    /\ config = [perplexity_enabled |-> FALSE, api_key |-> FALSE,
                 cache_manager |-> TRUE]
    /\ now = 1
    /\ cache = [k \in Keys |-> NoEntry]
    /\ last_cleanup = 1
    /\ last_detected_emotion = "neutral"
    /\ current_cache_key = NoKey
    /\ current_query_data = NoReq
    /\ normalized_query = NoKey
    /\ req = [r \in Reqs |-> Blank]
    /\ last_response = NoResponse
    /\ written_by = [k \in Keys |-> NoResponse]
    /\ started = 0

\* ------------------------------------------------------------------------
\* Orchestrator helpers (rag.py)
\* ------------------------------------------------------------------------

\* RAGAssistant._is_temporal_query
IsTemporalQuery(question) ==
    IF ~config.perplexity_enabled THEN FALSE ELSE NeedsCurrentInfo(question)

\* PerplexityClient.is_available
IsAvailable == config.api_key /\ config.perplexity_enabled

\* Mutation of ShouldUseCache: the temporal check is missing.
ShouldUseCache_NoTemporalCheck(question) ==
    IF ~config.cache_manager THEN FALSE ELSE TRUE

\* RAGAssistant._should_use_cache
ShouldUseCache(question) ==
    IF ~config.cache_manager THEN FALSE
    ELSE IF IsTemporalQuery(question) THEN FALSE
    ELSE TRUE

\* query_data["cache_safe"] of the dict _current_query_data references,
\* seen from request r whose own dict is being updated to rq.
CurrentCacheSafe(cqd, r, rq) ==
    IF cqd = r THEN rq.qd_cache_safe ELSE req[cqd].qd_cache_safe

\* An outcome of running the generator of one request up to its next
\* suspension or its end: the request record and the shared fields.
Out(rq, emo, cck, cqd, c, last, nq) ==
    [rq |-> rq, emo |-> emo, cck |-> cck, cqd |-> cqd, cache |-> c,
     last |-> last, nq |-> nq]

\* The except block of query(): log, label confused, yield the fallback.
\* log_fails: _log_query raises inside the handler, so the exception leaves
\* the generator.
QueryExcept(o_arg, log_fails) ==
    LET Once(o) ==
        LET rq1 == [o.rq EXCEPT !.failed = TRUE, !.qd_cache_safe = FALSE,
                                !.pending = <<>>]
        IN  IF log_fails
            THEN [o EXCEPT !.rq = [rq1 EXCEPT !.pc = "raised"]]
            ELSE [o EXCEPT !.emo = "confused",
                           !.rq = [rq1 EXCEPT !.pc = "fallback",
                                              !.emotion_set = TRUE,
                                              !.emitted = Append(@, AnErrorOccurred)]]
    IN  CHOOSE res \in {Once(v) : v \in {o_arg}} : TRUE

\* RAGAssistant._cache_response_if_appropriate
CacheResponseIfAppropriate(r, o_arg, response_text) ==
    LET Once(o) ==
        IF /\ o.cck # NoKey
           /\ config.cache_manager
           /\ o.cqd # NoReq
           /\ CurrentCacheSafe(o.cqd, r, o.rq)
        THEN LET cr == CacheResponse(o.cache, o.last, o.cck,
                           [llm_response |-> response_text,
                            response_format |-> o.rq.response_format,
                            timestamp |-> 0,
                            from_failed |-> o.rq.failed], now)
             IN  [o EXCEPT !.cache = cr[1], !.last = cr[2],
                           !.rq = [@ EXCEPT !.cache_written = TRUE,
                                            !.written_key = o.cck]]
        ELSE o
    IN  CHOOSE res \in {Once(v) : v \in {o_arg}} : TRUE

\* RAGAssistant._handle_response_completion followed by the return through
\* _process_results, _process_rag_query and query().
HandleResponseCompletion(r, o_arg, log_fails, log_fails_again) ==
    LET Once(o) ==
        LET o1 == CacheResponseIfAppropriate(r, o, Flatten(o.rq.emitted))
        IN  IF log_fails THEN QueryExcept(o1, log_fails_again)
            ELSE [o1 EXCEPT !.rq = [@ EXCEPT !.pc = "done"]]
    IN  CHOOSE res \in {Once(v) : v \in {o_arg}} : TRUE

NonEmpty(deltas_arg) ==
    LET Once(deltas) ==
        SelectSeq(deltas, LAMBDA d : d # <<>>)
    IN  CHOOSE res \in {Once(v) : v \in {deltas_arg}} : TRUE

IsPrefix(a_arg, b_arg) ==
    LET Once(a, b) ==
        Len(a) <= Len(b) /\ SubSeq(b, 1, Len(a)) = a
    IN  CHOOSE res \in {Once(v[1], v[2]) : v \in {<<a_arg, b_arg>>}} : TRUE

\* What the LLM stream can do at the next pull, after the deltas in
\* received: raise, or deliver the rest of one of its streams up to the
\* next delta with content (kind "delta") or up to its end (kind "end").
\* taken: the deltas consumed by the pull.
LLMEvents(received_arg) ==
    LET Once(received) ==
        {[kind |-> "raise", taken |-> <<>>]}
        \cup
        {LET rest == SubSeq(s, Len(received) + 1, Len(s))
             idx == {i \in 1..Len(rest) : rest[i] # <<>>}
         IN  IF idx = {} THEN [kind |-> "end", taken |-> rest]
             ELSE LET k == CHOOSE i \in idx : \A j \in idx : i <= j
                  IN  [kind |-> "delta", taken |-> SubSeq(rest, 1, k)]
         : s \in {x \in LLMStreams : IsPrefix(received, x)}}
    IN  CHOOSE res \in {Once(v) : v \in {received_arg}} : TRUE

\* Mutation of StreamResponseWithEmotion: the delta is stripped before it
\* is yielded.
StreamResponseWithEmotion_Stripped(r, o_arg, ev, log_fails, log_fails_again) ==
    LET Once(o) ==
        LET rq1 == [o.rq EXCEPT !.received = @ \o ev.taken]
        IN  CASE ev.kind = "delta" ->
                   [o EXCEPT !.rq = [rq1 EXCEPT !.pc = "llm",
                                                !.emitted = Append(@,
                                                    Strip(ev.taken[Len(ev.taken)]))]]
              [] ev.kind = "raise" ->
                   [o EXCEPT !.emo = "neutral",
                             !.rq = [rq1 EXCEPT !.pc = "llm_err",
                                                !.failed = TRUE,
                                                !.emotion_set = TRUE,
                                                !.emitted = Append(@, ErrorGeneratingResponse)]]
              [] ev.kind = "end" ->
                   HandleResponseCompletion(r,
                       [o EXCEPT !.emo = ParseLLMResponse(Flatten(rq1.emitted),
                                                          rq1.question)[2],
                                 !.rq = [rq1 EXCEPT !.emotion_set = TRUE]],
                       log_fails, log_fails_again)
    IN  CHOOSE res \in {Once(v) : v \in {o_arg}} : TRUE

\* One resumption of RAGAssistant._stream_response_with_emotion inside the
\* loop of _process_results.  ev is what the LLM stream does next; deltas
\* without content are skipped.
StreamResponseWithEmotion(r, o_arg, ev, log_fails, log_fails_again) ==
    LET Once(o) ==
        LET rq1 == [o.rq EXCEPT !.received = @ \o ev.taken]
        IN  CASE ev.kind = "delta" ->
                   [o EXCEPT !.rq = [rq1 EXCEPT !.pc = "llm",
                                                !.emitted = Append(@,
                                                    ev.taken[Len(ev.taken)])]]
              [] ev.kind = "raise" ->
                   [o EXCEPT !.emo = "neutral",
                             !.rq = [rq1 EXCEPT !.pc = "llm_err",
                                                !.failed = TRUE,
                                                !.emotion_set = TRUE,
                                                !.emitted = Append(@, ErrorGeneratingResponse)]]
              [] ev.kind = "end" ->
                   HandleResponseCompletion(r,
                       [o EXCEPT !.emo = ParseLLMResponse(Flatten(rq1.emitted),
                                                          rq1.question)[2],
                                 !.rq = [rq1 EXCEPT !.emotion_set = TRUE]],
                       log_fails, log_fails_again)
    IN  CHOOSE res \in {Once(v) : v \in {o_arg}} : TRUE

\* Mutation of Commit: query() has no finally block, the tracking of the
\* request outlives its generator.
Commit_KeepsTracking(r, o_arg) ==
    \E o \in {o_arg} :
    /\ req' = [req EXCEPT ![r] = o.rq]
    /\ last_detected_emotion' = o.emo
    /\ cache' = o.cache
    /\ last_cleanup' = o.last
    /\ normalized_query' = o.nq
    /\ current_query_data' = o.cqd /\ current_cache_key' = o.cck
    /\ UNCHANGED <<rerank, invoked, config, now, last_response, written_by, started>>

\* Commit an outcome (bound once as o); the finally block of query() runs
\* when the generator ends.
Commit(r, o_arg) ==
    \E o \in {o_arg} :
    /\ req' = [req EXCEPT ![r] = o.rq]
    /\ last_detected_emotion' = o.emo
    /\ cache' = o.cache
    /\ last_cleanup' = o.last
    /\ normalized_query' = o.nq
    /\ IF o.rq.pc \in {"done", "raised", "closed"}
       THEN current_query_data' = NoReq /\ current_cache_key' = NoKey
       ELSE current_query_data' = o.cqd /\ current_cache_key' = o.cck
    /\ UNCHANGED <<rerank, invoked, config, now, last_response, written_by, started>>

\* The outcome record of the current state for request r.
Cur(r) ==
    Out(req[r], last_detected_emotion, current_cache_key, current_query_data,
        cache, last_cleanup, normalized_query)


\* ------------------------------------------------------------------------
\* Generator bodies up to the next yield
\* ------------------------------------------------------------------------

\* Yield the head of chunks and keep the rest, suspended at position pc.
YieldFirst(o_arg, chunks, pc) ==
    LET Once(o) ==
        [o EXCEPT !.rq = [@ EXCEPT !.pc = pc,
                                   !.emitted = Append(@, Head(chunks)),
                                   !.pending = Tail(chunks)]]
    IN  CHOOSE res \in {Once(v) : v \in {o_arg}} : TRUE

\* Mutation of HandleCachedResponse: the entry that was hit is stored
\* again with the time of the hit.
HandleCachedResponse_Touches(o_arg, cached, log_fails, log_fails_again) ==
    LET Once(o) ==
        LET parsed == ParseLLMResponse(cached.llm_response, <<>>)
            chunks == CachedChunks(parsed[1])
            o1 == [o EXCEPT !.emo = parsed[2],
                            !.cache = [@ EXCEPT ![o.cck] =
                                          [cached EXCEPT !.timestamp = now]],
                            !.rq = [@ EXCEPT !.qd_cache_safe = TRUE,
                                             !.emotion_set = TRUE,
                                             !.path = "cache"]]
        IN  IF chunks # <<>> THEN YieldFirst(o1, chunks, "cached")
            ELSE IF log_fails THEN QueryExcept(o1, log_fails_again)
            ELSE [o1 EXCEPT !.rq = [@ EXCEPT !.pc = "done"]]
    IN  CHOOSE res \in {Once(v) : v \in {o_arg}} : TRUE

\* RAGAssistant._handle_cached_response up to its first yield, or to the
\* end when the cached text has no word.
HandleCachedResponse(o_arg, cached, log_fails, log_fails_again) ==
    LET Once(o) ==
        LET parsed == ParseLLMResponse(cached.llm_response, <<>>)
            chunks == CachedChunks(parsed[1])
            o1 == [o EXCEPT !.emo = parsed[2],
                            !.rq = [@ EXCEPT !.qd_cache_safe = TRUE,
                                             !.emotion_set = TRUE,
                                             !.path = "cache"]]
        IN  IF chunks # <<>> THEN YieldFirst(o1, chunks, "cached")
            ELSE IF log_fails THEN QueryExcept(o1, log_fails_again)
            ELSE [o1 EXCEPT !.rq = [@ EXCEPT !.pc = "done"]]
    IN  CHOOSE res \in {Once(v) : v \in {o_arg}} : TRUE

\* The except block of _query_perplexity: provider fallback.
PerplexityExcept(o_arg) ==
    LET Once(o) ==
        LET error_response == PerplexityErrorResponse(o.rq.response_format)
        IN  [o EXCEPT !.emo = DetectEmotionFromContent(error_response,
                                                       o.rq.question),
                      !.rq = [@ EXCEPT !.pc = "pplx_err",
                                       !.failed = TRUE,
                                       !.qd_cache_safe = FALSE,
                                       !.emotion_set = TRUE,
                                       !.pending = <<>>,
                                       !.emitted = Append(@, error_response)]]
    IN  CHOOSE res \in {Once(v) : v \in {o_arg}} : TRUE

\* RAGAssistant._query_perplexity up to its first yield.  stream is what
\* the provider delivers; provider_fails: the provider call raises.
QueryPerplexity(o_arg, stream, provider_fails, log_fails) ==
    LET Once(o) ==
        LET o1 == [o EXCEPT !.rq = [@ EXCEPT !.qd_cache_safe =
                                       IF o.cqd # NoReq THEN FALSE ELSE @,
                                             !.path = "pplx"]]
            response_text ==
                Flatten([i \in 1..Len(stream) |-> RemoveCitations(stream[i])])
            parsed == ParseLLMResponse(response_text, o.rq.question)
            o2 == [o1 EXCEPT !.emo = parsed[2],
                             !.rq = [@ EXCEPT !.qd_cache_safe = FALSE,
                                              !.emotion_set = TRUE]]
            chunks == StreamText(parsed[1])
        IN  IF provider_fails THEN PerplexityExcept(o1)
            ELSE IF chunks # <<>> THEN YieldFirst(o2, chunks, "pplx")
            ELSE IF log_fails THEN PerplexityExcept(o2)
            ELSE [o2 EXCEPT !.rq = [@ EXCEPT !.pc = "done"]]
    IN  CHOOSE res \in {Once(v) : v \in {o_arg}} : TRUE

\* RAGAssistant._get_cache_response: <<outcome, cached entry or NoEntry>>
GetCacheResponse(o_arg) ==
    LET Once(o) ==
        IF ~ShouldUseCache(o.rq.question) THEN <<o, NoEntry>>
        ELSE LET cache_query == IF o.nq # NoKey THEN o.nq ELSE o.rq.question
                 cache_key == GetCacheKey(cache_query, o.rq.response_format)
             IN  << [o EXCEPT !.cck = cache_key,
                              !.rq = [@ EXCEPT !.cache_read = TRUE]],
                    GetCachedResponse(o.cache, cache_key, now) >>
    IN  CHOOSE res \in {Once(v) : v \in {o_arg}} : TRUE

\* RAGAssistant._process_rag_query up to its first yield.
\* pre_fails: preprocessing or entity extraction raises;
\* search_fails: retrieval, re-ranking or prompt assembly raises.
ProcessRagQuery(r, o_arg, pre_fails, search_fails, ev, log_fails, log_fails_again) ==
    LET reset(o) == [o EXCEPT !.nq = NoKey]
        extracted(o, name) ==
            [o EXCEPT !.rq = [@ EXCEPT !.qd_cache_safe =
                                 IF o.cqd # NoReq THEN TRUE ELSE @],
                      !.nq = name]
        after_cache(got) ==
            IF got[2] # NoEntry
            THEN HandleCachedResponse(got[1], got[2], log_fails,
                                      log_fails_again)
            ELSE IF search_fails
            THEN QueryExcept([got[1] EXCEPT !.rq = [@ EXCEPT !.searched = TRUE]],
                             log_fails_again)
            ELSE StreamResponseWithEmotion(r,
                     [got[1] EXCEPT !.rq = [@ EXCEPT !.path = "llm",
                                                     !.searched = TRUE]],
                     ev, log_fails, log_fails_again)
        Once(o) ==
            IF pre_fails THEN QueryExcept(reset(o), log_fails_again)
            ELSE CHOOSE res \in
                   {after_cache(v) :
                      v \in {GetCacheResponse(
                                extracted(reset(o),
                                          NormalizedQueries[o.rq.question]))}} :
                   TRUE
    IN  CHOOSE res \in {Once(v) : v \in {o_arg}} : TRUE

\* ------------------------------------------------------------------------
\* Actions
\* ------------------------------------------------------------------------

max_query_length == 1000

\* len() of a text: the characters of its atoms.
AtomLen(a) == IF a = LongWord THEN max_query_length + 1 ELSE Len(a)

RECURSIVE CharLen(_)
CharLen(t_arg) ==
    LET Once(t) ==
        IF t = <<>> THEN 0 ELSE AtomLen(Head(t)) + CharLen(Tail(t))
    IN  CHOOSE res \in {Once(v) : v \in {t_arg}} : TRUE

\* Mutation of Validate: the emptiness test is made on the unstripped
\* question.
Validate_NoStrip(question, format) ==
    IF question = <<>> THEN "Question cannot be empty"
    ELSE IF CharLen(Strip(question)) > max_query_length
         THEN "Question too long"
    ELSE IF format \notin {"web", "voice"}
         THEN "Format must be 'web' or 'voice'"
    ELSE "ok"

\* The input validation of query_rag: the detail of the HTTP 400 it raises,
\* or "ok".
Validate(question, format) ==
    IF Strip(question) = <<>> THEN "Question cannot be empty"
    ELSE IF CharLen(Strip(question)) > max_query_length
         THEN "Question too long"
    ELSE IF format \notin {"web", "voice"}
         THEN "Format must be 'web' or 'voice'"
    ELSE "ok"

\* POST /query refused by the validation: HTTP 400, nothing else happens.
Reject(q, f) ==
    /\ \A s \in Reqs : req[s].pc = "idle"
    /\ Validate(q, f) # "ok"
    /\ last_response' = [status |-> 400, detail |-> Validate(q, f),
                         question |-> q, response_format |-> f]
    /\ UNCHANGED <<rerank, invoked, config, now, cache, last_cleanup, last_detected_emotion,
                   current_cache_key, current_query_data, normalized_query,
                   req, written_by, started>>

\* POST /query accepted (routes.py, query_rag up to the creation of the
\* generator).  The handler is a coroutine that never awaits, so a request
\* is taken only when no other is being served.
Request(r, q, f) ==
    /\ started < MaxRequests
    /\ \A s \in Reqs : req[s].pc = "idle"
    /\ r = 1
    /\ Validate(q, f) = "ok"
    /\ req' = [req EXCEPT ![r] =
                 [Blank EXCEPT !.pc = "created", !.question = q,
                               !.response_format = f,
                               !.is_temporal = config.perplexity_enabled
                                               /\ NeedsCurrentInfo(q)]]
    /\ started' = started + 1
    /\ last_response' = NoResponse
    /\ UNCHANGED <<rerank, invoked, config, now, cache, last_cleanup, last_detected_emotion,
                   current_cache_key, current_query_data, normalized_query,
                   written_by>>

\* The state query() sets up before its try block.
Entered(r) ==
    Out([req[r] EXCEPT !.qd_cache_safe = TRUE], last_detected_emotion,
        current_cache_key, r, cache, last_cleanup, normalized_query)

\* Does query() take the provider branch for this question?
TakesProviderPath(question) ==
    config.perplexity_enabled /\ IsTemporalQuery(question) /\ IsAvailable

\* First next() of query(), provider branch.
StartPerplexity(r) ==
    /\ req[r].pc = "created"
    /\ TakesProviderPath(req[r].question)
    /\ \E stream \in ProviderStreams, provider_fails, log_fails \in BOOLEAN :
          Commit(r, QueryPerplexity(Entered(r), stream, provider_fails,
                                    log_fails))

\* First next() of query(), RAG branch.
StartRag(r) ==
    /\ req[r].pc = "created"
    /\ ~TakesProviderPath(req[r].question)
    /\ \E pre_fails, search_fails, log_fails, log_fails_again \in BOOLEAN :
       \E ev \in LLMEvents(<<>>) :
          Commit(r, ProcessRagQuery(r, Entered(r), pre_fails, search_fails,
                                    ev, log_fails, log_fails_again))

\* next() while suspended at the yield of an LLM delta.
ResumeLLM(r) ==
    /\ req[r].pc = "llm"
    /\ \E ev \in LLMEvents(req[r].received) :
       \E log_fails, log_fails_again \in BOOLEAN :
          Commit(r, StreamResponseWithEmotion(r, Cur(r), ev, log_fails,
                                              log_fails_again))

\* next() while suspended at the yield of "Error generating response".
ResumeLLMErr(r) ==
    /\ req[r].pc = "llm_err"
    /\ \E log_fails, log_fails_again \in BOOLEAN :
          Commit(r, HandleResponseCompletion(r, Cur(r), log_fails,
                                             log_fails_again))

\* next() while suspended in _handle_cached_response.
ResumeCached(r) ==
    /\ req[r].pc = "cached"
    /\ \E log_fails, log_fails_again \in BOOLEAN :
          Commit(r, IF req[r].pending # <<>>
                    THEN YieldFirst(Cur(r), req[r].pending, "cached")
                    ELSE IF log_fails
                         THEN QueryExcept(Cur(r), log_fails_again)
                    ELSE [Cur(r) EXCEPT !.rq = [@ EXCEPT !.pc = "done"]])

\* next() while suspended in the streaming loop of _query_perplexity.
ResumePerplexity(r) ==
    /\ req[r].pc = "pplx"
    /\ \E log_fails \in BOOLEAN :
          Commit(r, IF req[r].pending # <<>>
                    THEN YieldFirst(Cur(r), req[r].pending, "pplx")
                    ELSE IF log_fails THEN PerplexityExcept(Cur(r))
                    ELSE [Cur(r) EXCEPT !.rq = [@ EXCEPT !.pc = "done"]])

\* next() while suspended at the yield of the provider fallback.
ResumePerplexityErr(r) ==
    /\ req[r].pc = "pplx_err"
    /\ \E log_fails, log_fails_again \in BOOLEAN :
          Commit(r, IF log_fails THEN QueryExcept(Cur(r), log_fails_again)
                    ELSE [Cur(r) EXCEPT !.rq = [@ EXCEPT !.pc = "done"]])

\* Mutation of ResumeFallback: after the fallback the handler starts the
\* query again.
ResumeFallback_Retries(r) ==
    /\ req[r].pc = "fallback"
    /\ Commit(r, [Cur(r) EXCEPT !.cqd = NoReq, !.cck = NoKey,
                                !.rq = [Blank EXCEPT
                                   !.pc = "created",
                                   !.question = req[r].question,
                                   !.response_format = req[r].response_format,
                                   !.is_temporal = req[r].is_temporal]])

\* next() while suspended at the yield of "An error occurred".
ResumeFallback(r) ==
    /\ req[r].pc = "fallback"
    /\ Commit(r, [Cur(r) EXCEPT !.rq = [@ EXCEPT !.pc = "done"]])

\* Mutation of RouteCacheSafe: the elif branch for temporal queries is
\* missing.
RouteCacheSafe_NoElif(cqd, is_temporal) ==
    IF cqd # NoReq THEN req[cqd].qd_cache_safe ELSE TRUE

\* cache_safe as query_rag computes it after the loop.
RouteCacheSafe(cqd, is_temporal) ==
    IF cqd # NoReq THEN req[cqd].qd_cache_safe
    ELSE IF is_temporal THEN FALSE
    ELSE TRUE

\* The handler after its loop: the response body, or the 500 envelope when
\* the generator raised.  The fields after cache_safe are history.
Response(r) ==
    [status |-> IF req[r].pc = "raised" THEN 500 ELSE 200,
     question |-> req[r].question,
     response_format |-> req[r].response_format,
     response |-> IF req[r].pc = "raised" THEN <<>>
                  ELSE RouteClean(Flatten(req[r].emitted)),
     emotion |-> IF req[r].pc = "raised" THEN None
                 ELSE last_detected_emotion,
     cache_safe |-> IF req[r].pc = "raised" THEN FALSE
                    ELSE RouteCacheSafe(current_query_data,
                                        req[r].is_temporal),
     temporal_detected |-> req[r].is_temporal,
     failed |-> req[r].failed,
     path |-> req[r].path,
     cache_read |-> req[r].cache_read,
     cache_written |-> req[r].cache_written]

Respond(r) ==
    /\ req[r].pc \in {"done", "raised"}
    /\ \E resp \in {Response(r)} :
        /\ last_response' = resp
        /\ written_by' = IF req[r].cache_written
                         THEN [written_by EXCEPT ![req[r].written_key] =
                                  IF resp.status = 200 /\ ~req[r].failed
                                  THEN [status |-> 200,
                                        response |-> resp.response,
                                        emotion |-> resp.emotion,
                                        cache_safe |-> resp.cache_safe]
                                  ELSE NoResponse]
                         ELSE written_by
    /\ req' = [req EXCEPT ![r] = Blank]
    /\ UNCHANGED <<rerank, invoked, config, now, cache, last_cleanup,
                   last_detected_emotion, current_cache_key,
                   current_query_data, normalized_query, started>>

\* Time passes between requests (a request lasts seconds, the clock counts
\* hours).
Tick(d) ==
    /\ now + d <= MaxNow
    /\ \A r \in Reqs : req[r].pc = "idle"
    /\ now' = now + d
    /\ UNCHANGED <<rerank, invoked, config, cache, last_cleanup, last_detected_emotion,
                   current_cache_key, current_query_data, normalized_query,
                   req, last_response, written_by, started>>

Next ==
    \/ \E r \in Reqs, b \in Bodies : Request(r, b.question, b.format)
    \/ \E b \in Bodies : Reject(b.question, b.format)
    \/ \E r \in Reqs : StartPerplexity(r)
    \/ \E r \in Reqs : StartRag(r)
    \/ \E r \in Reqs : ResumeLLM(r)
    \/ \E r \in Reqs : ResumeLLMErr(r)
    \/ \E r \in Reqs : ResumeCached(r)
    \/ \E r \in Reqs : ResumePerplexity(r)
    \/ \E r \in Reqs : ResumePerplexityErr(r)
    \/ \E r \in Reqs : ResumeFallback(r)
    \/ \E r \in Reqs : Respond(r)
    \/ \E d \in TickSizes : Tick(d)

Spec == Init /\ [][Next]_vars

\* One step of the handler of request r: the for loop of query_rag pulls
\* the next chunk, or the handler returns.
HandlerStep(r) ==
    \/ StartPerplexity(r)
    \/ StartRag(r)
    \/ ResumeLLM(r)
    \/ ResumeLLMErr(r)
    \/ ResumeCached(r)
    \/ ResumePerplexity(r)
    \/ ResumePerplexityErr(r)
    \/ ResumeFallback(r)
    \/ Respond(r)

\* The handler runs its loop without waiting for anything but the upstream
\* calls, and each upstream call returns or raises: a handler that can take
\* a step eventually takes one.
FairSpec == Spec /\ \A r \in Reqs : WF_vars(HandlerStep(r))

\* ------------------------------------------------------------------------
\* Consumers of query() that stop iterating
\* ------------------------------------------------------------------------

\* Positions at which the generator of query() is suspended at a yield.
Suspended == {"llm", "llm_err", "cached", "pplx", "pplx_err", "fallback"}

\* Mutation of Close: closing the generator completes the response as if
\* the stream had been exhausted.
Close_CachesPartial(r, o_arg) ==
    LET Once(o) ==
        [CacheResponseIfAppropriate(r, o, Flatten(o.rq.emitted))
            EXCEPT !.rq = [@ EXCEPT !.pc = "closed", !.pending = <<>>]]
    IN  CHOOSE res \in {Once(v) : v \in {o_arg}} : TRUE

\* generator.close(): GeneratorExit is raised at the yield where the
\* generator is suspended.  It is not an Exception, so no except block of
\* _stream_response_with_emotion, _query_perplexity or query() handles it
\* and the statements after the yield loops are skipped.
Close(r, o_arg) ==
    LET Once(o) ==
        [o EXCEPT !.rq = [@ EXCEPT !.pc = "closed", !.pending = <<>>]]
    IN  CHOOSE res \in {Once(v) : v \in {o_arg}} : TRUE

\* The consumer drops the stream of request r (client disconnect); the
\* finally block of query() runs.
Abandon(r) ==
    /\ req[r].pc \in Suspended
    /\ Commit(r, Close(r, Cur(r)))

\* The closed generator is discarded.
Discard(r) ==
    /\ req[r].pc = "closed"
    /\ req' = [req EXCEPT ![r] = Blank]
    /\ UNCHANGED <<rerank, invoked, config, now, cache, last_cleanup, last_detected_emotion,
                   current_cache_key, current_query_data, normalized_query,
                   last_response, written_by, started>>

NextAbandon ==
    \/ Next
    \/ \E r \in Reqs : Abandon(r)
    \/ \E r \in Reqs : Discard(r)

SpecAbandon == Init /\ [][NextAbandon]_vars

\* ------------------------------------------------------------------------
\* Two executions of query() driven in turns on one RAGAssistant
\* ------------------------------------------------------------------------

\* A consumer creates a generator of query() while another one may still be
\* suspended.  Two executions are followed, one per slot of Reqs.
RequestInterleaved(r, q, f) ==
    /\ started < MaxRequests
    /\ started < Cardinality(Reqs)
    /\ req[r].pc = "idle"
    /\ \A s \in Reqs : s < r => req[s].pc # "idle"
    /\ Validate(q, f) = "ok"
    /\ req' = [req EXCEPT ![r] =
                 [Blank EXCEPT !.pc = "created", !.question = q,
                               !.response_format = f,
                               !.is_temporal = config.perplexity_enabled
                                               /\ NeedsCurrentInfo(q)]]
    /\ started' = started + 1
    /\ last_response' = NoResponse
    /\ UNCHANGED <<rerank, invoked, config, now, cache, last_cleanup, last_detected_emotion,
                   current_cache_key, current_query_data, normalized_query,
                   written_by>>

NextInterleaved ==
    \/ \E r \in Reqs, b \in Bodies :
          RequestInterleaved(r, b.question, b.format)
    \/ \E r \in Reqs : StartPerplexity(r)
    \/ \E r \in Reqs : StartRag(r)
    \/ \E r \in Reqs : ResumeLLM(r)
    \/ \E r \in Reqs : ResumeLLMErr(r)
    \/ \E r \in Reqs : ResumeCached(r)
    \/ \E r \in Reqs : ResumePerplexity(r)
    \/ \E r \in Reqs : ResumePerplexityErr(r)
    \/ \E r \in Reqs : ResumeFallback(r)
    \/ \E r \in Reqs : Respond(r)

SpecInterleaved == Init /\ [][NextInterleaved]_vars


\* ------------------------------------------------------------------------
\* Scoring and re-ranking (scoring_service.py, text_processing.py)
\* Scores are counted in thousandths.  The words of the texts given to the
\* scorer are single atoms.
\* ------------------------------------------------------------------------

DEFAULT_RESULTS == 5
PERSON_BOOST == 150
ORG_BOOST == 100
LOCATION_BOOST == 80
EVENT_BOOST == 80
EXACT_MATCH_BOOST == 150
HASHTAG_BOOST == 20
MENTION_BOOST == 20
MIN_RELEVANCE_SCORE == 250
MIN_TERM_MATCH == 700
NAME_MATCH_THRESHOLD == 80

\* TextProcessor.stop_words
stop_words ==
    {"the", "a", "an", "and", "or", "but", "in", "on", "at", "to", "for"}

\* TextProcessor.extract_search_terms(text)
ExtractSearchTerms(text) ==
    LET ws == WordAtoms(LowerText(text))
        cleaned == [i \in 1..Len(ws) |-> RemovePunctuation(ws[i])]
    IN  SelectSeq(cleaned, LAMBDA term : term # "" /\ term \notin stop_words)

\* TextProcessor.calculate_term_overlap(query_terms, document), in
\* thousandths.
CalculateTermOverlap(query_terms, document) ==
    LET doc_terms == {ExtractSearchTerms(document)[i] :
                         i \in 1..Len(ExtractSearchTerms(document))}
        matches == Cardinality({i \in 1..Len(query_terms) :
                                   query_terms[i] \in doc_terms})
    IN  IF query_terms # <<>> THEN (matches * 1000) \div Len(query_terms)
        ELSE 0

\* `a in b` on two words: equal, or a listed proper substring.
InWord(a, b) ==
    \/ a = b
    \/ <<a, b>> \in {<<"nitk", "nitksurathkal">>, <<"news", "newsletter">>}

\* tag.lower().lstrip('#') and mention.lower().lstrip('@')
LStripSign(a) ==
    CASE a = "#nitk"          -> "nitk"
      [] a = "#NITKSurathkal" -> "nitksurathkal"
      [] a = "#placements"    -> "placements"
      [] a = "@director"      -> "director"
      [] a = "@Ravi"          -> "ravi"
      [] OTHER                -> Lower(a)

\* ScoringService._calculate_metadata_boost(metadata, query_text)
CalculateMetadataBoost(metadata, query_text) ==
    LET qws == WordAtoms(query_text)
        query_terms == {Lower(qws[i]) : i \in 1..Len(qws)}
        hashtags == [i \in 1..Len(metadata.hashtags) |->
                        LStripSign(metadata.hashtags[i])]
        mentions == [i \in 1..Len(metadata.mentions) |->
                        LStripSign(metadata.mentions[i])]
        relevant_hashtags ==
            Cardinality({i \in 1..Len(hashtags) :
                            \E term \in query_terms : InWord(term, hashtags[i])})
        relevant_mentions ==
            Cardinality({i \in 1..Len(mentions) :
                            \E term \in query_terms : InWord(term, mentions[i])})
    IN  relevant_hashtags * HASHTAG_BOOST + relevant_mentions * MENTION_BOOST

\* getattr(self.config, f'{ent_type}_BOOST', 0.1)
TypeBoost(ent_type) ==
    CASE ent_type = "PERSON"   -> PERSON_BOOST
      [] ent_type = "ORG"      -> ORG_BOOST
      [] ent_type = "LOCATION" -> LOCATION_BOOST
      [] ent_type = "EVENT"    -> EVENT_BOOST
      [] OTHER                 -> 100

\* `key in doc_entities`, where doc_entities is the list that
\* extract_doc_entities returned: its elements are the dicts of
\* extract_entities, and a str is equal to no dict.
StrEqualsDict(key, d) == FALSE
KeyIn(key, doc_entities) ==
    \E i \in 1..Len(doc_entities) : StrEqualsDict(key, doc_entities[i])

\* doc_entities[key] on a list raises TypeError.
TypeError == -1

\* ScoringService._calculate_entity_boost([query_entity], doc_entities,
\* query_intent, exact_match)
CalculateEntityBoost(query_ent, doc_entities, exact_match) ==
    IF exact_match THEN TypeBoost(query_ent.label)
    ELSE IF ~KeyIn(query_ent.label, doc_entities) THEN 0
    ELSE TypeError

\* ScoringService._calculate_person_boost([query_entity], doc_entities)
CalculatePersonBoost(query_ent, doc_entities, name_matcher) ==
    IF ~name_matcher THEN 0
    ELSE IF query_ent.label # "PERSON" \/ ~KeyIn("PERSON", doc_entities)
    THEN 0
    ELSE TypeError

\* Mutation of CalculateScores: the entity boost is left out of the final
\* score.
CalculateScores_NoEntityBoost(initial_distance, query_terms, query_text, query_entity, doc_entities, metadata, exact_match, name_matcher) ==
    LET initial_score ==
            1000 - (IF initial_distance < 1000 THEN initial_distance ELSE 1000)
        term_overlap == IF query_terms # <<>>
                        THEN CalculateTermOverlap(query_terms, metadata.text)
                        ELSE 0
        term_boost == IF term_overlap >= MIN_TERM_MATCH
                      THEN (term_overlap * EXACT_MATCH_BOOST) \div 1000
                      ELSE 0
        metadata_boost == CalculateMetadataBoost(metadata, query_text)
        with_entities == query_entity # NoEntity /\ doc_entities # <<>>
        entity_boost == IF with_entities
                        THEN CalculateEntityBoost(query_entity, doc_entities,
                                                  exact_match)
                        ELSE 0
        person_boost == IF /\ with_entities
                           /\ query_entity.label = "PERSON"
                           /\ name_matcher
                        THEN CalculatePersonBoost(query_entity, doc_entities,
                                                  name_matcher)
                        ELSE 0
    IN  [initial_score |-> initial_score,
         term_boost |-> term_boost,
         metadata_boost |-> metadata_boost,
         entity_boost |-> entity_boost,
         person_boost |-> person_boost,
         final_score |-> initial_score + term_boost + metadata_boost
                         + person_boost]

\* ScoringService.calculate_scores
CalculateScores(initial_distance, query_terms, query_text, query_entity, doc_entities, metadata, exact_match, name_matcher) ==
    LET initial_score ==
            1000 - (IF initial_distance < 1000 THEN initial_distance ELSE 1000)
        term_overlap == IF query_terms # <<>>
                        THEN CalculateTermOverlap(query_terms, metadata.text)
                        ELSE 0
        term_boost == IF term_overlap >= MIN_TERM_MATCH
                      THEN (term_overlap * EXACT_MATCH_BOOST) \div 1000
                      ELSE 0
        metadata_boost == CalculateMetadataBoost(metadata, query_text)
        with_entities == query_entity # NoEntity /\ doc_entities # <<>>
        entity_boost == IF with_entities
                        THEN CalculateEntityBoost(query_entity, doc_entities,
                                                  exact_match)
                        ELSE 0
        person_boost == IF /\ with_entities
                           /\ query_entity.label = "PERSON"
                           /\ name_matcher
                        THEN CalculatePersonBoost(query_entity, doc_entities,
                                                  name_matcher)
                        ELSE 0
    IN  [initial_score |-> initial_score,
         term_boost |-> term_boost,
         metadata_boost |-> metadata_boost,
         entity_boost |-> entity_boost,
         person_boost |-> person_boost,
         final_score |-> initial_score + term_boost + metadata_boost
                         + entity_boost + person_boost]

\* ScoringService.extract_doc_entities(document): the list the extractor
\* returns for the document (the memo by body hash returns the same), or
\* the empty dict without an extractor.
ExtractDocEntities(document_arg, entity_extractor) ==
    LET Once(document) ==
        IF ~entity_extractor THEN <<>> ELSE ExtractEntities(document)
    IN  CHOOSE res \in {Once(v) : v \in {document_arg}} : TRUE

\* Mutation of SortByScore: the list is returned in insertion order.
SortByScore_Unsorted(reranked_arg) ==
    reranked_arg

\* sorted(reranked, key=relevance_score, reverse=True) and the in-place
\* reranked.sort of the early exit: descending, stable on ties.
SortByScore(reranked_arg) ==
    LET Once(reranked) ==
        LET n == Len(reranked)
            \* position of element i in the sorted list
            pos(i) == Cardinality(
                {j \in 1..n :
                    \/ reranked[j].relevance_score > reranked[i].relevance_score
                    \/ /\ reranked[j].relevance_score = reranked[i].relevance_score
                       /\ j < i}) + 1
        IN  [p \in 1..n |-> reranked[CHOOSE i \in 1..n : pos(i) = p]]
    IN  CHOOSE res \in {Once(v) : v \in {reranked_arg}} : TRUE

RECURSIVE RerankLoop(_, _, _, _, _)
\* The for loop of rerank_results from results[i] on, and its return:
\* path is the return taken (normal, early, error).  hash(doc) is
\* represented by the stripped body itself (no collisions).  A malformed
\* result makes the loop body raise.
RerankLoop(call, i, reranked_arg, seen_content_arg, processed) ==
    LET Once(reranked, seen_content) ==
        IF i > Len(call.results)
        THEN [path |-> "normal", out |-> SortByScore(reranked),
              processed |-> processed]
        ELSE LET result == call.results[i]
                 doc == Strip(result.document)
                 Scored(scores) ==
                     LET keep == scores.final_score >= MIN_RELEVANCE_SCORE
                         kept == IF keep
                                 THEN Append(reranked,
                                         [document |-> result.document,
                                          metadata |-> result.metadata,
                                          relevance_score |-> scores.final_score,
                                          score_breakdown |-> scores,
                                          index |-> i])  \* history: its
                                                         \* place in results
                                 ELSE reranked
                         min_acceptable ==
                             (kept[1].relevance_score * MIN_RELEVANCE_SCORE * 4)
                             \div 1000
                     IN  IF /\ keep
                            /\ Len(kept) >= DEFAULT_RESULTS
                            /\ kept[Len(kept)].relevance_score < min_acceptable
                         THEN [path |-> "early", out |-> SortByScore(kept),
                               processed |-> processed + 1]
                         ELSE RerankLoop(call, i + 1, kept,
                                         (seen_content \cup {doc}) \ {doc},
                                         processed + 1)
             IN  IF doc \in seen_content
                 THEN RerankLoop(call, i + 1, reranked, seen_content,
                                 processed)
                 ELSE IF result.malformed
                 THEN [path |-> "error", out |-> <<>>,
                       processed |-> processed + 1]
                 ELSE CHOOSE res \in
                        {Scored(v) : v \in {CalculateScores(
                            result.distance,
                            ExtractSearchTerms(call.query_text),
                            call.query_text, call.entity,
                            ExtractDocEntities(doc, call.entity_extractor),
                            result.metadata, result.exact_match,
                            call.name_matcher)}} : TRUE
    IN  CHOOSE res \in {Once(v[1], v[2]) :
                           v \in {<<reranked_arg, seen_content_arg>>}} : TRUE

\* ScoringService.rerank_results(results, query_text, entity, query_intent)
RerankResults(call) == RerankLoop(call, 1, <<>>, {}, 0)

\* Candidates the vector search may return.
Candidates ==
    {[document |-> <<"NITK", " ", "director">>, distance |-> 300,
      metadata |-> [text |-> <<"Ravi", " ", "NITK", " ", "director?">>,
                    hashtags |-> <<"#NITKSurathkal">>,
                    mentions |-> <<"@director", "@Ravi">>],
      exact_match |-> FALSE, malformed |-> FALSE],
     [document |-> <<" ", "NITK", " ", "director", "\n">>, distance |-> 500,
      metadata |-> [text |-> <<>>, hashtags |-> <<>>, mentions |-> <<>>],
      exact_match |-> FALSE, malformed |-> FALSE],
     [document |-> <<"latest", " ", "news">>, distance |-> 1200,
      metadata |-> [text |-> <<"news">>, hashtags |-> <<"#placements">>,
                    mentions |-> <<>>],
      exact_match |-> FALSE, malformed |-> FALSE],
     [document |-> <<"Ravi", " ", "Kumar">>, distance |-> 400,
      metadata |-> [text |-> <<"Ravi", " ", "Kumar">>, hashtags |-> <<>>,
                    mentions |-> <<"@Ravi">>],
      exact_match |-> TRUE, malformed |-> FALSE],
     [document |-> <<"Ravi", " ", "Kumar", " ", "is", " ", "director">>,
      distance |-> 300,
      metadata |-> [text |-> <<>>, hashtags |-> <<>>, mentions |-> <<>>],
      exact_match |-> TRUE, malformed |-> FALSE],
     [document |-> <<"NITK">>, distance |-> 100,
      metadata |-> [text |-> <<"the", " ", "NITK">>, hashtags |-> <<>>,
                    mentions |-> <<>>],
      exact_match |-> FALSE, malformed |-> FALSE],
     [document |-> <<"sorry">>, distance |-> 200,
      metadata |-> [text |-> <<>>, hashtags |-> <<>>, mentions |-> <<>>],
      exact_match |-> FALSE, malformed |-> TRUE]}

Candidate(document) == CHOOSE c \in Candidates : c.document = document

\* Longest candidate list enumerated in full.
MaxResults == 3

\* The candidate lists of at most n results.
ListsUpTo(n) == UNION {[1..k -> Candidates] : k \in 0..n}

\* Lists long enough to hold DEFAULT_RESULTS results: one that takes the
\* early exit and two that run to the end of the loop.
LongLists ==
    LET a == Candidate(<<"NITK", " ", "director">>)
        b == Candidate(<<" ", "NITK", " ", "director", "\n">>)
        e == Candidate(<<"NITK">>)
    IN  {<<a, e, b, e, b, a>>, <<b, a, a, a, e>>, <<b, a, a, a, e, a>>}

ResultLists == ListsUpTo(MaxResults) \cup LongLists

\* query_entities[0] if query_entities else None
FirstEntity(query_entities) ==
    IF query_entities = <<>> THEN NoEntity ELSE query_entities[1]

\* The query of a call: its text and the entity the extractor finds in it.
RerankQueries ==
    {[query_text |-> q, entity |-> FirstEntity(ExtractEntities(q))] :
        q \in {<<"NITK", " ", "director?">>, <<"Ravi", " ", "Kumar">>}}

InitRerank ==
    /\ config = [perplexity_enabled |-> FALSE, api_key |-> FALSE,
                 cache_manager |-> TRUE]
    /\ now = 1
    /\ cache = [k \in Keys |-> NoEntry]
    /\ last_cleanup = 1
    /\ last_detected_emotion = "neutral"
    /\ current_cache_key = NoKey
    /\ current_query_data = NoReq
    /\ normalized_query = NoKey
    /\ req = [r \in Reqs |-> Blank]
    /\ last_response = NoResponse
    /\ written_by = [k \in Keys |-> NoResponse]
    /\ started = 0
    /\ invoked = NoCall
    /\ rerank \in {[pc |-> "called", results |-> l,
                    query_text |-> q.query_text, entity |-> q.entity,
                    entity_extractor |-> x, name_matcher |-> m,
                    path |-> "none", out |-> <<>>, processed |-> 0] :
                   l \in ResultLists, q \in RerankQueries,
                   x \in BOOLEAN, m \in BOOLEAN}

\* rerank_results runs from its call to its return.
Rerank ==
    /\ rerank.pc = "called"
    /\ \E res \in {RerankResults(rerank)} :
          rerank' = [rerank EXCEPT !.pc = "returned",
                                   !.path = res.path,
                                   !.out = res.out,
                                   !.processed = res.processed]
    /\ UNCHANGED <<invoked, config, now, cache, last_cleanup,
                   last_detected_emotion, current_cache_key,
                   current_query_data, normalized_query, req, last_response,
                   written_by, started>>

NextRerank == Rerank

SpecRerank == InitRerank /\ [][NextRerank]_vars

\* ------------------------------------------------------------------------
\* One call of EntityExtractor.extract_entities
\* ------------------------------------------------------------------------

\* Words of the texts handed to the extractor.
ExtractWords == {"NITK", "Ravi", "Kumar", "Central", "Library", "where"}

\* Longest text enumerated in full, in words.
MaxWords == 3

\* The texts of at most n words.
TextsUpTo(n) ==
    {JoinWords(ws) : ws \in UNION {[1..k -> ExtractWords] : k \in 0..n}}

\* Texts of more than chunk_size words: the second chunk is a catalogue
\* entry, a location or the person.
LongTexts ==
    {<<"where", " ", "is", " ", "the", " ", "latest", " ", "news", " ",
       "Central", " ", "Library">>,
     <<"where", " ", "is", " ", "the", " ", "latest", " ", "news", " ",
       "Ravi", " ", "Kumar">>,
     <<"where", " ", "is", " ", "the", " ", "latest", " ", "news", " ",
       "Library", " ", "Central", " ", "Ravi", " ", "Kumar">>}

ExtractTexts == TextsUpTo(MaxWords) \cup LongTexts

InitExtract ==
    /\ AtRest
    /\ rerank = NoRerank
    /\ invoked \in {[pc |-> "called", text |-> t, out |-> <<>>] :
                    t \in ExtractTexts}

\* extract_entities runs from its call to its return.
Extract ==
    /\ invoked.pc = "called"
    /\ \E res \in {ExtractEntities(invoked.text)} :
          invoked' = [invoked EXCEPT !.pc = "returned", !.out = res]
    /\ UNCHANGED <<rerank, service_vars>>

NextExtract == Extract

SpecExtract == InitExtract /\ [][NextExtract]_vars

\* ------------------------------------------------------------------------
\* The cache keys of two requests
\* ------------------------------------------------------------------------

\* Questions as POST /query hands them to query(): unstripped.
KeyQuestions ==
    {<<"hello">>, <<"hello", " ">>, <<"Hello">>, <<"hello", " ", "#nitk">>,
     <<"Ravi", " ", "Kumar">>, <<"ravi", " ", " ", "kumar">>}

KeyRequests == [question : KeyQuestions, response_format : Formats]

\* The key _get_cache_response computes in _process_rag_query for a
\* request: normalized_query is reset and recomputed by every request.
CacheKeyUsed(request) ==
    GetCacheResponse(
        Out([Blank EXCEPT !.question = request.question,
                          !.response_format = request.response_format],
            last_detected_emotion, NoKey, NoReq, cache, last_cleanup,
            NormalizedQuery(request.question)))[1].cck

InitKeys ==
    /\ AtRest
    /\ rerank = NoRerank
    /\ invoked \in {[pc |-> "called", first |-> a, second |-> b,
                     keys |-> <<>>] : a \in KeyRequests, b \in KeyRequests}

\* Each of the two requests computes its cache key.
ComputeKeys ==
    /\ invoked.pc = "called"
    /\ invoked' = [invoked EXCEPT !.pc = "returned",
                                  !.keys = <<CacheKeyUsed(invoked.first),
                                             CacheKeyUsed(invoked.second)>>]
    /\ UNCHANGED <<rerank, service_vars>>

NextKeys == ComputeKeys

SpecKeys == InitKeys /\ [][NextKeys]_vars

\* ------------------------------------------------------------------------
\* The search strategy of _process_rag_query after a cache miss
\* (rag.py, vector_search_service.py)
\* ------------------------------------------------------------------------

AtMost(n, limit) == IF n < limit THEN n ELSE limit

\* A collection: the number of its documents and of those that contain the
\* text of the query entity.
Collections ==
    {c \in [containing : {0, 2, 12}, size : {0, 4, 20}] :
        c.containing <= c.size}

\* VectorSearchService.entity_first_search: at most 2 * DEFAULT_RESULTS
\* documents that contain the entity text, marked exact_match; a failure
\* of the embedding or of collection.query is caught and gives [].
EntityFirstSearch(collection, entity, query_fails) ==
    IF query_fails THEN <<>>
    ELSE [i \in 1..AtMost(collection.containing, DEFAULT_RESULTS * 2) |->
             [document |-> i, exact_match |-> TRUE]]

\* VectorSearchService.semantic_search: the n_results nearest documents;
\* there is no try around the embedding and collection.query, whose
\* exception leaves the method.
SemanticSearch(collection, n_results, query_fails) ==
    IF query_fails THEN [raised |-> TRUE, results |-> <<>>]
    ELSE [raised |-> FALSE,
          results |-> [i \in 1..AtMost(collection.size, n_results) |->
                          [document |-> i, exact_match |-> FALSE]]]

\* _process_rag_query from the cache miss to the end of the stream: the
\* calls it made, the number of candidates it re-ranked and where they
\* came from, the chunks of the context and the LLM calls.  rerank_results
\* returns `kept` of its candidates at most.
SearchStrategy(question, collection, entity_fails, semantic_fails, kept) ==
    LET Reranked(results) == SubSeq(results, 1, AtMost(kept, Len(results)))
        context(relevant) == Len(SubSeq(relevant, 1,
                                        AtMost(Len(relevant), DEFAULT_RESULTS)))
        entity_call(found) ==
            <<[fn |-> "entity_first_search",
               n_results |-> DEFAULT_RESULTS * 2,
               failed |-> entity_fails, raised |-> FALSE,
               returned |-> Len(found)]>>
        semantic_call(semantic) ==
            [fn |-> "semantic_search", n_results |-> DEFAULT_RESULTS * 3,
             failed |-> semantic_fails, raised |-> semantic.raised,
             returned |-> Len(semantic.results)]
        answered(entity, calls, results) ==
            [pc |-> "answered", entity |-> entity, calls |-> calls,
             reranked |-> results, context |-> context(Reranked(results)),
             llm_calls |-> 1]
        after_semantic(entity, calls, semantic) ==
            IF semantic.raised
            THEN [pc |-> "raised", entity |-> entity,
                  calls |-> calls \o <<semantic_call(semantic)>>,
                  reranked |-> <<>>, context |-> 0, llm_calls |-> 0]
            ELSE answered(entity, calls \o <<semantic_call(semantic)>>,
                          semantic.results)
        after_entity(entity, calls, found) ==
            IF found # <<>> THEN answered(entity, calls, found)
            ELSE CHOOSE res \in
                   {after_semantic(entity, calls, v) :
                      v \in {SemanticSearch(collection, DEFAULT_RESULTS * 3,
                                            semantic_fails)}} : TRUE
        with_entity(entity) ==
            IF entity.label \in {"PERSON", "ORGANIZATION"}
            THEN CHOOSE res \in
                   {after_entity(entity, entity_call(v), v) :
                      v \in {EntityFirstSearch(collection, entity,
                                               entity_fails)}} : TRUE
            ELSE after_entity(entity, <<>>, <<>>)
    IN  CHOOSE res \in
          {with_entity(v) :
             v \in {FirstEntity(ExtractEntities(PreprocessText(question)))}} :
          TRUE

\* Questions that miss the cache: an organization, a person, a location
\* and no entity.
SearchQuestions ==
    {<<"NITK">>, <<"Ravi", " ", "Kumar">>, <<"Central", " ", "Library">>,
     <<"hello">>}

InitSearch ==
    /\ AtRest
    /\ rerank = NoRerank
    /\ invoked \in {[pc |-> "miss", question |-> q, collection |-> c] :
                       q \in SearchQuestions, c \in Collections}

\* The request runs from its cache miss to the end of its stream.
Search ==
    /\ invoked.pc = "miss"
    /\ \E entity_fails \in BOOLEAN, semantic_fails \in BOOLEAN,
          kept \in 0..(DEFAULT_RESULTS * 3) :
          \E res \in {SearchStrategy(invoked.question, invoked.collection,
                                     entity_fails, semantic_fails, kept)} :
             invoked' = [pc |-> res.pc, question |-> invoked.question,
                         collection |-> invoked.collection,
                         entity |-> res.entity, calls |-> res.calls,
                         reranked |-> res.reranked, context |-> res.context,
                         llm_calls |-> res.llm_calls]
    /\ UNCHANGED <<rerank, service_vars>>

NextSearch == Search

SpecSearch == InitSearch /\ [][NextSearch]_vars

\* ------------------------------------------------------------------------
\* One call of CacheManager.cleanup_cache
\* ------------------------------------------------------------------------

\* cleanup_cache at time t in a cache directory with other_size bytes
\* outside llm/ and a ceiling of max_size bytes: whether maintenance ran,
\* llm/ and last_cleanup afterwards.
CleanupCacheOf(c_arg, last, t, other_size, max_size) ==
    LET Once(c) ==
        IF t - last > cache_cleanup_interval_hours
        THEN [ran |-> TRUE,
              cache |-> CheckSizeLimitsOf(RemoveOldEntries(c, t), other_size,
                                          max_size),
              last |-> t]
        ELSE [ran |-> FALSE, cache |-> c, last |-> last]
    IN  CHOOSE res \in {Once(v) : v \in {c_arg}} : TRUE

\* Entries of llm/: two sizes; written long ago (expired at MaxNow), some
\* days ago and today.
StoredEntries ==
    [llm_response : {<<"NITK">>, <<"NITK", " ", "director">>},
     response_format : {"web"},
     timestamp : {1, 100, 190},
     from_failed : {FALSE}]

\* Bytes of the files of cache_dir outside llm/ (audio/, translations/ and
\* metadata.json, written by the web UI into the same directory).
OtherSizes == {0, 100, 300}

\* Ceiling of the calls followed, in bytes (cache_max_size_gb * 2^30).
SmallCeiling == 200

InitCleanup ==
    /\ AtRest
    /\ rerank = NoRerank
    /\ invoked \in {[pc |-> "called", cache |-> c, other_size |-> s,
                     max_size |-> SmallCeiling, last |-> l, t |-> MaxNow] :
                       c \in [Keys -> {NoEntry} \cup StoredEntries],
                       s \in OtherSizes, l \in {1, 190}}

\* cleanup_cache runs from its call to its return.
Cleanup ==
    /\ invoked.pc = "called"
    /\ \E res \in {CleanupCacheOf(invoked.cache, invoked.last, invoked.t,
                                  invoked.other_size, invoked.max_size)} :
          invoked' = [pc |-> "returned", before |-> invoked.cache,
                      cache |-> res.cache, other_size |-> invoked.other_size,
                      max_size |-> invoked.max_size, last |-> res.last,
                      t |-> invoked.t, ran |-> res.ran]
    /\ UNCHANGED <<rerank, service_vars>>

NextCleanup == Cleanup

SpecCleanup == InitCleanup /\ [][NextCleanup]_vars

\* ------------------------------------------------------------------------
\* Two threads in CacheManager.cache_response on one CacheManager
\* ------------------------------------------------------------------------
\* cache.py takes no lock: a thread may be suspended between any two
\* statements of cache_response and cleanup_cache.  Each writer makes one
\* call; its position is
\*   idle      before the call
\*   written   the entry is written, cleanup_cache not yet entered
\*   removing  the interval test passed, before _remove_old_entries
\*   sizing    before _check_size_limits
\*   stamping  before self.last_cleanup = datetime.now()
\*   done      returned

Writers == {1, 2}

\* The key each writer stores under.
WriterKey(w) ==
    IF w = 1 THEN GetCacheKey(<<"hello">>, "voice")
    ELSE GetCacheKey(<<"hello">>, "web")

InMaintenance == {"removing", "sizing", "stamping"}

InitWriters ==
    /\ AtRest
    /\ rerank = NoRerank
    /\ invoked = [pc |-> "writers", at |-> [w \in Writers |-> "idle"],
                  runs |-> {}]

\* The clock passes the cleanup interval.
Elapse ==
    /\ invoked.pc = "writers"
    /\ \E w \in Writers : invoked.at[w] # "done"
    /\ now + cache_cleanup_interval_hours + 1 <= MaxNow
    /\ now' = now + cache_cleanup_interval_hours + 1
    /\ UNCHANGED <<rerank, invoked, config, cache, last_cleanup,
                   last_detected_emotion, current_cache_key,
                   current_query_data, normalized_query, req, last_response,
                   written_by, started>>

\* cache_response up to the end of the with block: the file is written.
WriteEntry(w) ==
    /\ invoked.pc = "writers"
    /\ invoked.at[w] = "idle"
    /\ cache' = [cache EXCEPT ![WriterKey(w)] =
                    [llm_response |-> <<"NITK">>, response_format |-> "web",
                     timestamp |-> now, from_failed |-> FALSE]]
    /\ invoked' = [invoked EXCEPT !.at[w] = "written"]
    /\ UNCHANGED <<rerank, config, now, last_cleanup, last_detected_emotion,
                   current_cache_key, current_query_data, normalized_query,
                   req, last_response, written_by, started>>

\* cleanup_cache: the test of the interval against last_cleanup.  runs
\* keeps, for history, who began a maintenance run and when.
CheckInterval(w) ==
    /\ invoked.pc = "writers"
    /\ invoked.at[w] = "written"
    /\ invoked' =
          IF now - last_cleanup > cache_cleanup_interval_hours
          THEN [invoked EXCEPT !.at[w] = "removing",
                               !.runs = @ \cup {[by |-> w, start |-> now]}]
          ELSE [invoked EXCEPT !.at[w] = "done"]
    /\ UNCHANGED <<rerank, service_vars>>

\* cleanup_cache: self._remove_old_entries()
RemoveOld(w) ==
    /\ invoked.pc = "writers"
    /\ invoked.at[w] = "removing"
    /\ cache' = RemoveOldEntries(cache, now)
    /\ invoked' = [invoked EXCEPT !.at[w] = "sizing"]
    /\ UNCHANGED <<rerank, config, now, last_cleanup, last_detected_emotion,
                   current_cache_key, current_query_data, normalized_query,
                   req, last_response, written_by, started>>

\* cleanup_cache: self._check_size_limits()
CheckSize(w) ==
    /\ invoked.pc = "writers"
    /\ invoked.at[w] = "sizing"
    /\ cache' = CheckSizeLimits(cache)
    /\ invoked' = [invoked EXCEPT !.at[w] = "stamping"]
    /\ UNCHANGED <<rerank, config, now, last_cleanup, last_detected_emotion,
                   current_cache_key, current_query_data, normalized_query,
                   req, last_response, written_by, started>>

\* cleanup_cache: self.last_cleanup = datetime.now(), then the return.
Stamp(w) ==
    /\ invoked.pc = "writers"
    /\ invoked.at[w] = "stamping"
    /\ last_cleanup' = now
    /\ invoked' = [invoked EXCEPT !.at[w] = "done"]
    /\ UNCHANGED <<rerank, config, now, cache, last_detected_emotion,
                   current_cache_key, current_query_data, normalized_query,
                   req, last_response, written_by, started>>

NextWriters ==
    \/ Elapse
    \/ \E w \in Writers : WriteEntry(w)
    \/ \E w \in Writers : CheckInterval(w)
    \/ \E w \in Writers : RemoveOld(w)
    \/ \E w \in Writers : CheckSize(w)
    \/ \E w \in Writers : Stamp(w)

SpecWriters == InitWriters /\ [][NextWriters]_vars

\* ------------------------------------------------------------------------
\* Properties
\* ------------------------------------------------------------------------

\* The cache key the orchestrator computes for a request.
KeyOf(question, response_format) ==
    GetCacheKey(IF normalized_query # NoKey THEN normalized_query
                ELSE question, response_format)

EndsWith(t, suffix) ==
    /\ Len(suffix) <= Len(t)
    /\ SubSeq(t, Len(t) - Len(suffix) + 1, Len(t)) = suffix

FallbackStrings ==
    {ErrorGeneratingResponse, AnErrorOccurred, PerplexityErrorVoice,
     PerplexityErrorWeb}

\* C1: no error outcome is ever written to the response cache: no stored
\* entry was written by a query in which a step had failed, and no stored
\* text contains a fallback string.
C1_NoErrorOutcomeCached ==
    \A k \in Files(cache) :
        /\ ~cache[k].from_failed
        /\ ~ContainsAny(cache[k].llm_response, FallbackStrings)

\* C2: a question the temporal classifier flags, asked while the provider
\* is configured (enabled, with an API key), is answered with
\* cache_safe = false, whether the provider call succeeds or fails.
C2_TemporalNotCacheSafe ==
    ( /\ last_response.status = 200
      /\ NeedsCurrentInfo(last_response.question)
      /\ config.perplexity_enabled /\ config.api_key )
    => last_response.cache_safe = FALSE

\* C2 witness: a flagged question answered with the provider fallback.
C2_Witness ==
    /\ last_response.status = 200
    /\ NeedsCurrentInfo(last_response.question)
    /\ config.perplexity_enabled /\ config.api_key
    /\ last_response.path = "pplx"
    /\ last_response.failed
    /\ last_response.response \in {PerplexityErrorVoice, PerplexityErrorWeb}

\* The cache is untouched by request r: not read, not written, and no file
\* under the request's key.
CacheUntouched(r) ==
    /\ ~req[r].cache_read
    /\ ~req[r].cache_written
    /\ GetCacheKey(req[r].question, req[r].response_format) \notin Files(cache)

\* C3 as stated: whatever the provider configuration, a query whose
\* question the temporal classifier flags neither reads nor writes the
\* cache and leaves no cache file under its key.
C3_Original ==
    \A r \in Reqs :
        (req[r].pc # "idle" /\ NeedsCurrentInfo(req[r].question))
        => CacheUntouched(r)

\* C3 amended: the same, for the configurations in which the provider
\* feature flag (perplexity_enabled) is on, with or without an API key.
C3_TemporalBypassesCache ==
    \A r \in Reqs :
        ( /\ req[r].pc # "idle"
          /\ NeedsCurrentInfo(req[r].question)
          /\ config.perplexity_enabled )
        => CacheUntouched(r)

\* C3 witness: a flagged question served to completion by the RAG path
\* because the API key is absent.
C3_Witness ==
    \E r \in Reqs :
        /\ config.perplexity_enabled /\ ~config.api_key
        /\ NeedsCurrentInfo(req[r].question)
        /\ req[r].pc = "done" /\ req[r].path = "llm" /\ ~req[r].failed
        /\ req[r].emitted # <<>>

\* C4: a non-temporal query that completes without error, with the cache
\* enabled, reports cache_safe = true and leaves under its key an entry
\* that, read back within the TTL, holds the response text returned.
C4_CachedEqualsReturned ==
    ( /\ last_response.status = 200
      /\ ~last_response.failed
      /\ ~NeedsCurrentInfo(last_response.question)
      /\ config.cache_manager )
    => /\ last_response.cache_safe = TRUE
       /\ KeyOf(last_response.question, last_response.response_format)
              \in Files(cache)
       /\ LET e == GetCachedResponse(cache,
                       KeyOf(last_response.question,
                             last_response.response_format), now)
          IN  e # NoEntry => e.llm_response = last_response.response

\* C5: a cache-safe query re-issued within the TTL (so served from the
\* entry the first one wrote) returns the text and the emotion label of the
\* first response.
C5_ReissueIdentical ==
    ( /\ last_response.status = 200
      /\ ~last_response.failed
      /\ last_response.path = "cache"
      /\ written_by[KeyOf(last_response.question,
                          last_response.response_format)].status = 200 )
    => LET first == written_by[KeyOf(last_response.question,
                                     last_response.response_format)]
       IN  first.cache_safe
           => /\ last_response.response = first.response
              /\ last_response.emotion = first.emotion

\* C6: when a step of query() on the RAG path raises, the response ends
\* with the fallback "An error occurred" and reports the emotion confused.
C6_FallbackOnException ==
    ( /\ last_response.status = 200
      /\ last_response.failed
      /\ last_response.path # "pplx" )
    => /\ EndsWith(last_response.response, AnErrorOccurred)
       /\ last_response.emotion = "confused"

\* C7: a failure inside a request not classified temporal is reported with
\* cache_safe = false.
C7_FailureNotCacheSafe ==
    ( /\ last_response.status = 200
      /\ last_response.failed
      /\ ~last_response.temporal_detected )
    => last_response.cache_safe = FALSE

\* C8: the emotion the accessor returns, and the emotion of every response
\* body, is one of the nine labels.
C8_EmotionEnumerated ==
    /\ last_detected_emotion \in Emotions
    /\ last_response.status = 200 => last_response.emotion \in Emotions

\* C8 witness: a cache hit labelled from the cached text.
C8_Witness ==
    /\ last_response.status = 200
    /\ last_response.path = "cache"
    /\ last_response.emotion = "sad"

\* C9: while chunks of a request are still to be emitted, the accessor does
\* not yet return a label assigned by this request.
C9_LabelAfterLastChunk ==
    \A r \in Reqs : req[r].pending # <<>> => ~req[r].emotion_set

C12_OwnKeyOnly ==
    \A r \in Reqs :
        req[r].cache_written
        => req[r].written_key =
              GetCacheKey(req[r].question, req[r].response_format)


\* C13: a query that reads the cache gets the stored entry exactly when the
\* file of its key exists and is not older than the TTL; the text it then
\* replays is the stored text.
C13_ReadIffFresh ==
    [][\A r \in Reqs :
         (req[r].pc = "created" /\ req'[r].cache_read)
         => LET k == GetCacheKey(req[r].question, req[r].response_format)
                fresh == /\ k \in Files(cache)
                         /\ now - cache[k].timestamp
                               <= cache_max_age_days * 24
            IN  /\ (req'[r].path = "cache") <=> fresh
                /\ (req'[r].path = "cache" /\ ~req'[r].failed)
                   => req'[r].emitted \o req'[r].pending
                         = CachedChunks(Strip(cache[k].llm_response))]_vars

\* C13 witness: a query missed the cache although the file of its key is
\* still on disk, older than the TTL.
C13_Witness ==
    \E r \in Reqs :
        LET k == GetCacheKey(req[r].question, req[r].response_format)
        IN  /\ req[r].pc = "llm" /\ req[r].cache_read
            /\ k \in Files(cache)
            /\ now - cache[k].timestamp > cache_max_age_days * 24


\* C14: a question the temporal classifier flags, asked while the provider
\* is disabled (feature flag off, or API key absent), is answered by the RAG
\* path and the response reports cache_safe = true.
C14_DisabledProviderCacheSafe ==
    ( /\ last_response.status = 200
      /\ ~last_response.failed
      /\ NeedsCurrentInfo(last_response.question)
      /\ ~(config.perplexity_enabled /\ config.api_key) )
    => /\ last_response.path \in {"llm", "cache"}
       /\ last_response.cache_safe = TRUE


C15_Terminates ==
    /\ []<>(\A r \in Reqs : req[r].pc = "idle")
    /\ [][\A r \in Reqs :
            (req[r].pc # "idle" /\ req'[r].pc = "idle")
            => \/ last_response'.status = 500
               \/ /\ last_response'.status = 200
                  /\ last_response'.question = req[r].question
                  /\ last_response'.response_format = req[r].response_format
                  /\ last_response'.response \in Seq(STRING)
                  /\ last_response'.emotion \in Emotions
                  /\ last_response'.cache_safe \in BOOLEAN]_vars

\* C15 witness: a request answered after the provider, and then the query
\* log in the provider's except block, failed.
C15_Witness ==
    /\ last_response.status = 200
    /\ last_response.path = "pplx"
    /\ last_response.failed
    /\ EndsWith(last_response.response, AnErrorOccurred)

\* C17: every result rerank_results returns carries a score breakdown whose
\* final_score is the sum of initial_score and the term, metadata, entity
\* and person boosts, hence at least initial_score; that final_score is
\* the relevance score of the result and is at least MIN_RELEVANCE_SCORE.
C17_ScoreBreakdown ==
    rerank.pc = "returned" =>
        \A i \in 1..Len(rerank.out) :
            LET b == rerank.out[i].score_breakdown
            IN  /\ b.final_score = b.initial_score + b.term_boost
                                   + b.metadata_boost + b.entity_boost
                                   + b.person_boost
                /\ b.final_score >= b.initial_score
                /\ rerank.out[i].relevance_score = b.final_score
                /\ b.final_score >= MIN_RELEVANCE_SCORE

\* C17 witness: a call returned a result with a term boost, a metadata
\* boost and an entity boost, after dropping a candidate below the
\* threshold.
C17_Witness ==
    /\ rerank.pc = "returned"
    /\ rerank.path = "normal"
    /\ Len(rerank.out) < rerank.processed
    /\ \E i \in 1..Len(rerank.out) :
          /\ rerank.out[i].score_breakdown.term_boost > 0
          /\ rerank.out[i].score_breakdown.metadata_boost > 0
          /\ rerank.out[i].score_breakdown.entity_boost > 0

\* C18: the list rerank_results returns is ordered by non-increasing
\* relevance score, whichever return it takes (end of the loop, early
\* exit, or the empty list after an error).
C18_NonIncreasing ==
    rerank.pc = "returned" =>
        /\ \A i, j \in 1..Len(rerank.out) :
              i < j => rerank.out[i].relevance_score
                       >= rerank.out[j].relevance_score
        /\ rerank.path = "error" => rerank.out = <<>>

\* C18 witness: the early exit returned DEFAULT_RESULTS results in an
\* order that differs from the order in which they were kept.
C18_Witness ==
    /\ rerank.pc = "returned"
    /\ rerank.path = "early"
    /\ Len(rerank.out) >= DEFAULT_RESULTS
    /\ rerank.processed < Len(rerank.results)
    /\ \E i, j \in 1..Len(rerank.out) :
          i < j /\ rerank.out[i].index > rerank.out[j].index

\* C19: the list rerank_results returns holds at most one result per
\* stripped document body, and that result is the first candidate of the
\* input with that body.
C19_Deduplicated ==
    (rerank.pc = "returned" /\ rerank.path # "error") =>
        /\ \A i, j \in 1..Len(rerank.out) :
              i # j => Strip(rerank.out[i].document)
                       # Strip(rerank.out[j].document)
        /\ \A i \in 1..Len(rerank.out) :
              \A k \in 1..(rerank.out[i].index - 1) :
                  Strip(rerank.results[k].document)
                  # Strip(rerank.out[i].document)

\* C20: a request served from the cache calls neither the vector search and
\* re-ranker nor the LLM and never calls cache_response; every step it
\* takes, the hit included, leaves the cache directory (entries and their
\* timestamps) and the cleanup clock as they were; when it ends without a
\* failure it has streamed the chunks of the stored text.
C20_CacheHitFrame ==
    /\ [](\A r \in Reqs :
            req[r].path = "cache" =>
                /\ ~req[r].searched
                /\ req[r].received = <<>>
                /\ ~req[r].cache_written
                /\ (req[r].pc = "done" /\ ~req[r].failed) =>
                       LET key == KeyOf(req[r].question,
                                        req[r].response_format)
                       IN  /\ key \in Files(cache)
                           /\ req[r].emitted =
                                  CachedChunks(Strip(cache[key].llm_response)))
    /\ [][\A r \in Reqs :
            req'[r].path = "cache" =>
                cache' = cache /\ last_cleanup' = last_cleanup]_vars

\* C20 witness: a request answered from an entry stored at an earlier
\* hour, which is still stored with that hour.
C20_Witness ==
    /\ last_response.status = 200
    /\ last_response.path = "cache"
    /\ ~last_response.failed
    /\ last_response.response # <<>>
    /\ \E k \in Files(cache) :
          /\ k = GetCacheKey(last_response.question,
                             last_response.response_format)
          /\ cache[k].timestamp < now

\* What the entity dictionary holds for a text: an entry of some type
\* equal to the whole text (lowercased), and a non-PERSON entry whose
\* token-sort ratio with a chunk of the text is at least 0.9.
ExactEntries(text) ==
    {Entity(e, ty) : e \in UNION {entities[x] : x \in DOMAIN entities},
                     ty \in DOMAIN entities} \cap
    {m \in [label : DOMAIN entities,
            text : UNION {entities[x] : x \in DOMAIN entities}] :
        /\ m.text \in entities[m.label]
        /\ LowerText(m.text) = LowerText(Strip(text))}

HighConfidenceEntries(text) ==
    {m \in [label : DOMAIN entities \ {"PERSON"},
            text : UNION {entities[x] : x \in DOMAIN entities}] :
        /\ m.text \in entities[m.label]
        /\ \E c \in 1..Len(Chunks(text)) :
              TokenSortRatio(LowerText(Chunks(text)[c]), LowerText(m.text))
                  >= 90}

\* C27: extract_entities returns at most one entity; an entry equal to the
\* whole text wins; otherwise a non-PERSON entry that matches a chunk with
\* a ratio of at least 0.9 is returned; only when there is neither is the
\* result a PERSON or empty.
C27_Precedence ==
    invoked.pc = "returned" =>
        /\ Len(invoked.out) <= 1
        /\ IF ExactEntries(invoked.text) # {}
           THEN Len(invoked.out) = 1 /\ invoked.out[1] \in ExactEntries(invoked.text)
           ELSE IF HighConfidenceEntries(invoked.text) # {}
           THEN /\ Len(invoked.out) = 1
                /\ invoked.out[1] \in HighConfidenceEntries(invoked.text)
           ELSE \A i \in 1..Len(invoked.out) : invoked.out[i].label = "PERSON"

\* Two questions have the same normalized form: the same cleaned text and
\* the same normalized name.
SameNormalizedForm(q1_arg, q2_arg) ==
    LET Once(q1, q2) ==
        /\ PreprocessText(q1) = PreprocessText(q2)
        /\ NormalizeName(q1) = NormalizeName(q2)
    IN  CHOOSE res \in {Once(v[1], v[2]) : v \in {<<q1_arg, q2_arg>>}} : TRUE

\* C21: two requests whose questions have the same normalized form and the
\* same format use the same cache key, and two requests of different
\* formats never use the same key.
C21_KeyOfNormalizedQuestion ==
    invoked.pc = "returned" =>
        /\ (/\ SameNormalizedForm(invoked.first.question,
                                  invoked.second.question)
            /\ invoked.first.response_format
                   = invoked.second.response_format)
           => invoked.keys[1] = invoked.keys[2]
        /\ invoked.first.response_format # invoked.second.response_format
           => invoked.keys[1] # invoked.keys[2]

\* The candidate a returned result was scored from.
SourceOf(result) == rerank.results[result.index]

\* C25: a returned candidate that the retrieval layer marked exact_match
\* carries, in entity_boost, the boost of the query entity's type, whatever
\* is extracted from its own document.
C25_ExactMatchBoost ==
    (rerank.pc = "returned" /\ rerank.entity_extractor) =>
        \A k \in 1..Len(rerank.out) :
            (SourceOf(rerank.out[k]).exact_match /\ rerank.entity # NoEntity)
            => rerank.out[k].score_breakdown.entity_boost
                   >= TypeBoost(rerank.entity.label)

\* Similarities of the query name to the PERSON entities extracted from a
\* document that reach NAME_MATCH_THRESHOLD.
PersonMatches(document_arg) ==
    LET Once(document) ==
        LET doc_entities == ExtractDocEntities(Strip(document),
                                               rerank.entity_extractor)
            query_name == NormalizeName(rerank.entity.text)
        IN  {sim \in {NameSimilarity(query_name, doc_entities[j].text) :
                         j \in {i \in 1..Len(doc_entities) :
                                   doc_entities[i].label = "PERSON"}} :
                sim >= NAME_MATCH_THRESHOLD}
    IN  CHOOSE res \in {Once(v) : v \in {document_arg}} : TRUE

\* C26: for a PERSON query and a returned candidate whose document holds a
\* PERSON with name similarity of at least NAME_MATCH_THRESHOLD, the
\* person_boost of the breakdown is PERSON_BOOST * similarity / 100, not 0.
C26_PersonBoost ==
    (rerank.pc = "returned" /\ rerank.name_matcher
        /\ rerank.entity.label = "PERSON") =>
        \A k \in 1..Len(rerank.out) :
            PersonMatches(SourceOf(rerank.out[k]).document) # {}
            => /\ rerank.out[k].score_breakdown.person_boost > 0
               /\ \E sim \in PersonMatches(SourceOf(rerank.out[k]).document) :
                     rerank.out[k].score_breakdown.person_boost
                         = (PERSON_BOOST * sim) \div 100

\* The accepted candidates held once the first i candidates are scanned,
\* read off the results of a call that scanned them all.
HeldAfter(i) ==
    {k \in 1..Len(rerank.out) : rerank.out[k].index <= i}

\* At least DEFAULT_RESULTS candidates are held and the lowest final score
\* held is below the highest times MIN_RELEVANCE_SCORE times 4.
SpreadReached(held) ==
    /\ Cardinality(held) >= DEFAULT_RESULTS
    /\ \E lo \in held : \E hi \in held :
          rerank.out[lo].relevance_score
              < (rerank.out[hi].relevance_score * MIN_RELEVANCE_SCORE * 4)
                    \div 1000

\* C29: rerank_results leaves the loop early only with at least
\* DEFAULT_RESULTS candidates held whose lowest score is below the highest
\* times MIN_RELEVANCE_SCORE times 4, and it never goes on to a further
\* candidate once that is the case.
C29_EarlyExit ==
    /\ (rerank.pc = "returned" /\ rerank.path = "early")
       => SpreadReached(1..Len(rerank.out))
    /\ (rerank.pc = "returned" /\ rerank.path = "normal")
       => \A i \in 1..(Len(rerank.results) - 1) : ~SpreadReached(HeldAfter(i))

\* C22: a failure of the collection query never leaves the search service:
\* the failed call returns an empty result set.
C22_SearchFailuresCaught ==
    invoked.pc \in {"answered", "raised"} =>
        \A i \in 1..Len(invoked.calls) :
            invoked.calls[i].failed
            => (~invoked.calls[i].raised /\ invoked.calls[i].returned = 0)

\* The calls of a search method made by the request.
CallsOf(fn) ==
    {i \in 1..Len(invoked.calls) : invoked.calls[i].fn = fn}

\* C28: after a cache miss entity_first_search is called exactly for a
\* PERSON or ORGANIZATION entity; when it returns results they alone are
\* re-ranked and semantic_search is not called; otherwise semantic_search
\* is called for 3 * DEFAULT_RESULTS candidates; at most DEFAULT_RESULTS
\* chunks form the context and the LLM is invoked exactly once.
C28_SearchStrategy ==
    invoked.pc \in {"answered", "raised"} =>
        /\ Cardinality(CallsOf("entity_first_search"))
               = (IF invoked.entity.label \in {"PERSON", "ORGANIZATION"}
                  THEN 1 ELSE 0)
        /\ IF \E i \in CallsOf("entity_first_search") :
                  invoked.calls[i].returned > 0
           THEN /\ CallsOf("semantic_search") = {}
                /\ \A j \in 1..Len(invoked.reranked) :
                      invoked.reranked[j].exact_match
           ELSE /\ Cardinality(CallsOf("semantic_search")) = 1
                /\ \A i \in CallsOf("semantic_search") :
                      invoked.calls[i].n_results = 3 * DEFAULT_RESULTS
        /\ invoked.context <= DEFAULT_RESULTS
        /\ invoked.llm_calls = 1

\* The entries a maintenance run unlinked for size: present and unexpired
\* before, absent after.
DeletedForSize ==
    Files(RemoveOldEntries(invoked.before, invoked.t)) \ Files(invoked.cache)

\* C24: when a maintenance run completes no expired entry remains, the
\* total size of the cache directory is within the ceiling, and the
\* entries deleted for size are the oldest ones.
C24_AfterMaintenance ==
    (invoked.pc = "returned" /\ invoked.ran) =>
        /\ \A k \in Files(invoked.cache) :
              ~IsExpired(invoked.cache[k].timestamp, invoked.t)
        /\ TotalSize(invoked.cache, Files(invoked.cache)) + invoked.other_size
               <= invoked.max_size
        /\ \A d \in DeletedForSize : \A k \in Files(invoked.cache) :
              invoked.before[d].timestamp <= invoked.cache[k].timestamp

\* C23: with several writers in cache_response at once, no two of them are
\* in a maintenance run together, and no two maintenance runs begin within
\* one cleanup interval of each other.
C23_MaintenanceSerialized ==
    invoked.pc = "writers" =>
        /\ Cardinality({w \in Writers : invoked.at[w] \in InMaintenance}) <= 1
        /\ \A a \in invoked.runs : \A b \in invoked.runs :
              (a # b /\ a.start <= b.start)
              => b.start - a.start > cache_cleanup_interval_hours

\* Positions at which no execution of query() is under way for a request.
NotRunning == {"idle", "created", "done", "raised", "closed"}

\* C30: once query() has finished, by exhaustion, exception or abandonment,
\* the current query record and the current cache key are cleared, and a
\* request writes the cache only under the key of its own question and
\* format, whatever requests came before it.
C30_TrackingCleared ==
    /\ (\A r \in Reqs : req[r].pc \in NotRunning)
       => (current_query_data = NoReq /\ current_cache_key = NoKey)
    /\ \A r \in Reqs :
          req[r].cache_written
          => /\ req[r].written_key # NoKey
             /\ req[r].written_key =
                   GetCacheKey(req[r].question, req[r].response_format)

\* C30 witness: the second request of a behaviour has finished after
\* writing the cache under its own key, and the tracking is cleared.
C30_Witness ==
    /\ started = 2
    /\ \E r \in Reqs :
          /\ req[r].pc = "done" /\ req[r].cache_written
          /\ req[r].written_key =
                GetCacheKey(req[r].question, req[r].response_format)
    /\ current_query_data = NoReq
    /\ current_cache_key = NoKey

====
